---- MODULE Spec2Model ----
(***************************************************************************)
(* A model of cryptonabber-txn-sync: the skip/processed registry           *)
(* (IgnoreList and its YAML form), the transfer matcher, and the run of    *)
(* main(): load the registry, match the uncleared YNAB transactions        *)
(* against the transfer pool, import the remaining transfers, persist the  *)
(* registry.                                                               *)
(*                                                                         *)
(* Strings whose letter case matters (addresses, hashes) are sequences of  *)
(* one-character strings.  Instants are hours since an epoch; a calendar   *)
(* day is 24 hours.  Pointers to Transfer objects are the names of the     *)
(* objects.                                                                *)
(***************************************************************************)
EXTENDS Integers, Sequences, FiniteSets, TLC

VARIABLES
    pc,             \* position in main()
    run,            \* number of the current run of the program
    now,            \* time.Now().Format(time.DateOnly)
    file,           \* transaction_hash.ignorelist on disk
    ignoreList,     \* IgnoreList.hashes of the in-memory registry
    loaded,         \* the registry as FromYAML / NewIgnoreList produced it in this run
    writeHandle,    \* how main() opened the file for the deferred write
    persists,       \* deferred ToYAML calls executed in this run
    prevRegistry,   \* the in-memory registry when the previous run ended
    dryRun,         \* --dry-run
    transfers,      \* the parsed export: a sequence of Transfer pointers
    account,        \* the YNAB account: its transactions in API order
    ledger,         \* YNAB's state of each transaction: memo and cleared flag
    calls,          \* requests sent to the YNAB client
    uncleared,      \* unclearedTransactions of runSync
    remaining,      \* remainingTransfers of processUnclearedTransactions
    idx,            \* index of the loop over unclearedTransactions / transfers
    matchedCount,
    unmatchedCount,
    history,        \* one record per iteration of the match loop
    offered,        \* transfers the import pass prompted the caller for
    outcome,        \* how runSync ended
    probe           \* inputs and result of the last pure-function application

vars == <<pc, run, now, file, ignoreList, loaded, writeHandle, persists,
          prevRegistry, dryRun, transfers, account, ledger, calls, uncleared,
          remaining, idx, matchedCount, unmatchedCount, history, offered,
          outcome, probe>>

(***************************************************************************)
(* Bounds of the model.                                                    *)
(***************************************************************************)
MaxPool == 2
MaxEntries == 2
MaxReg == 3
MaxYamlItems == 2
MaxMatchPool == 2

(***************************************************************************)
(* Strings.                                                                *)
(***************************************************************************)
LowerChar(c) ==
    CASE c = "A" -> "a"
      [] c = "B" -> "b"
      [] c = "C" -> "c"
      [] c = "D" -> "d"
      [] c = "E" -> "e"
      [] c = "F" -> "f"
      [] c = "G" -> "g"
      [] c = "H" -> "h"
      [] c = "I" -> "i"
      [] c = "J" -> "j"
      [] c = "K" -> "k"
      [] c = "L" -> "l"
      [] c = "M" -> "m"
      [] c = "N" -> "n"
      [] c = "O" -> "o"
      [] c = "P" -> "p"
      [] c = "Q" -> "q"
      [] c = "R" -> "r"
      [] c = "S" -> "s"
      [] c = "T" -> "t"
      [] c = "U" -> "u"
      [] c = "V" -> "v"
      [] c = "W" -> "w"
      [] c = "X" -> "x"
      [] c = "Y" -> "y"
      [] c = "Z" -> "z"
      [] OTHER -> c

ToLower(s) == [i \in DOMAIN s |-> LowerChar(s[i])]

EqualFold(s, t) == ToLower(s) = ToLower(t)

Range(s) == {s[i] : i \in DOMAIN s}

(***************************************************************************)
(* The registry: IgnoreList.  An IgnoredHash is [Hash, Reason]; a Reason   *)
(* is a sequence of words.                                                 *)
(***************************************************************************)
NewIgnoreList == <<>>

ProcessedReason(ynabTransactionID, day) ==
    <<"Processed for transaction ID", ynabTransactionID, "on", day>>

IgnoredReason(day) == <<"Marked as ignored on", day>>

AddProcessedHash(hashes, transactionHash, ynabTransactionID, day) ==
    Append(hashes, [Hash |-> transactionHash,
                    Reason |-> ProcessedReason(ynabTransactionID, day)])

AddIgnoredHash(hashes, transactionHash, day) ==
    Append(hashes, [Hash |-> transactionHash, Reason |-> IgnoredReason(day)])

IsHashIgnored(hashes, transactionHash) ==
    \E i \in DOMAIN hashes : EqualFold(hashes[i].Hash, transactionHash)

GetHashCount(hashes) == Len(hashes)

(***************************************************************************)
(* The registry file.  Its content is [kind, items]: kind "absent" (no     *)
(* file), "zero" (a file with no YAML document in it), "malformed", or     *)
(* "doc", a YAML document whose ignored_hashes list is items.  An item is  *)
(* a mapping: keys are the keys present, hash and reason their values (the *)
(* empty string when the key is absent, as the decoder leaves the field's  *)
(* zero value).                                                            *)
(***************************************************************************)
AbsentFile == [kind |-> "absent", items |-> <<>>]
ZeroFile == [kind |-> "zero", items |-> <<>>]
MalformedFile == [kind |-> "malformed", items |-> <<>>]
Doc(items) == [kind |-> "doc", items |-> items]

YamlItem(keys, hash, reason) == [keys |-> keys, hash |-> hash, reason |-> reason]

\* yaml.Decoder.Decode fails on a malformed stream and returns io.EOF on a
\* stream that holds no document.
DecodeFails(f) == f.kind \in {"zero", "malformed"}

FromYAMLItem(y) ==
    [Hash |-> IF "hash" \in y.keys THEN y.hash ELSE <<>>,
     Reason |-> IF "reason" \in y.keys THEN y.reason ELSE <<>>]

FromYAML(f) ==
    IF DecodeFails(f)
    THEN [err |-> TRUE, hashes |-> <<>>]
    ELSE [err |-> FALSE,
          hashes |-> [i \in DOMAIN f.items |-> FromYAMLItem(f.items[i])]]

\* An encoder that writes no reason, to compare ToYAMLItem with.
ToYAMLItemDropReason(h) == YamlItem({"hash"}, h.Hash, <<>>)

ToYAMLItem(h) == YamlItem({"hash", "reason"}, h.Hash, h.Reason)

ToYAML(hashes) == Doc([i \in DOMAIN hashes |-> ToYAMLItem(hashes[i])])

(***************************************************************************)
(* The transfer matcher.  A Transfer is [ptr, FromAddress, ToAddress,      *)
(* Amount, ExecutionTime, TransactionHash]; Amount is NilAmount for a nil  *)
(* *big.Int.  A YNAB transaction is [ID, Amount, Date].                    *)
(***************************************************************************)
NilAmount == -1
NoPtr == "nil"
HoursPerDay == 24

RECURSIVE Pow10(_)
Pow10(n) == IF n = 0 THEN 1 ELSE 10 * Pow10(n - 1)

Abs(n) == IF n < 0 THEN -n ELSE n

CalendarDay(t) == t \div HoursPerDay

\* expected := |ynabTransaction.Amount| * 10^decimals / 1000
ExpectedBaseUnits(amount, decimals) == (Abs(amount) * Pow10(decimals)) \div 1000

\* A direction rule that compares the addresses as they are spelled, to
\* compare AddressMatches with.
AddressMatchesCaseSensitive(ynabTransaction, address, tr) ==
    IF ynabTransaction.Amount < 0
    THEN tr.FromAddress = address
    ELSE tr.ToAddress = address

\* outbound: match from address; inbound: match to address
AddressMatches(ynabTransaction, address, tr) ==
    IF ynabTransaction.Amount < 0
    THEN ToLower(tr.FromAddress) = ToLower(address)
    ELSE ToLower(tr.ToAddress) = ToLower(address)

\* An amount rule with a tolerance of one base unit, to compare AmountMatches
\* with.
AmountMatchesWithinOne(ynabTransaction, decimals, tr) ==
    Abs(ExpectedBaseUnits(ynabTransaction.Amount, decimals) - tr.Amount) <= 1

AmountMatches(ynabTransaction, decimals, tr) ==
    /\ tr.Amount # NilAmount
    /\ ExpectedBaseUnits(ynabTransaction.Amount, decimals) = tr.Amount

sameDate(a, b) == CalendarDay(a) = CalendarDay(b)

\* MatchTransfer returns the first transfer of the same day, or nil.
MatchTransfer(ynabTransaction, address, decimals, pool) ==
    LET hits == SelectSeq(pool, LAMBDA tr :
                    /\ sameDate(tr.ExecutionTime, ynabTransaction.Date)
                    /\ AddressMatches(ynabTransaction, address, tr)
                    /\ AmountMatches(ynabTransaction, decimals, tr))
    IN  IF hits = <<>> THEN NoPtr ELSE hits[1].ptr

\* A tolerance of 24 hours between the two instants, to compare withinOneDay
\* with.
withinRolling24Hours(a, b) == Abs(a - b) <= HoursPerDay

\* The date tolerance of MatchTransfers: the two calendar days differ by at
\* most one.
withinOneDay(a, b) == Abs(CalendarDay(a) - CalendarDay(b)) <= 1

\* A matcher that stops at the first transfer that satisfies the rules, to
\* compare MatchTransfers with.
MatchTransfersFirstOnly(ynabTransaction, address, decimals, pool) ==
    LET hits == SelectSeq(pool, LAMBDA tr :
                    /\ Abs(CalendarDay(tr.ExecutionTime)
                           - CalendarDay(ynabTransaction.Date)) <= 1
                    /\ AddressMatches(ynabTransaction, address, tr)
                    /\ AmountMatches(ynabTransaction, decimals, tr))
    IN  IF hits = <<>> THEN <<>> ELSE <<hits[1]>>

\* MatchTransfers returns every transfer of the pool that satisfies the date,
\* address and amount rules, in pool order.
MatchTransfers(ynabTransaction, address, decimals, pool) ==
    SelectSeq(pool, LAMBDA tr :
        /\ withinOneDay(tr.ExecutionTime, ynabTransaction.Date)
        /\ AddressMatches(ynabTransaction, address, tr)
        /\ AmountMatches(ynabTransaction, decimals, tr))

(***************************************************************************)
(* Values the variables of the run of main() hold while a specification of *)
(* a pure function or of the registry alone drives the state.              *)
(***************************************************************************)
NoLoad == [status |-> "none", source |-> "none", hashes |-> <<>>]
NoProbe == [stage |-> "none"]

RunIdle ==
    /\ run = 0
    /\ loaded = NoLoad
    /\ writeHandle = "none"
    /\ persists = 0
    /\ prevRegistry = [valid |-> FALSE, hashes |-> <<>>]
    /\ dryRun = FALSE
    /\ transfers = <<>>
    /\ account = <<>>
    /\ ledger = <<>>
    /\ calls = <<>>
    /\ uncleared = <<>>
    /\ remaining = <<>>
    /\ idx = 0
    /\ matchedCount = 0
    /\ unmatchedCount = 0
    /\ history = <<>>
    /\ offered = <<>>
    /\ outcome = "none"

runVars == <<run, loaded, writeHandle, persists, prevRegistry, dryRun,
             transfers, account, ledger, calls, uncleared, remaining, idx,
             matchedCount, unmatchedCount, history, offered, outcome>>

SeqsUpTo(S, n) == UNION {[1..k -> S] : k \in 0..n}

(***************************************************************************)
(* SpecReg: AddProcessedHash and AddIgnoredHash called in any order on a   *)
(* registry that starts empty.                                             *)
(***************************************************************************)
RegHashes == {<<"h", "1">>, <<"H", "1">>, <<"h", "2">>}
RegIDs == {"t1", "t2"}
Days == {"2025-12-20", "2025-12-21"}

InitReg ==
    /\ pc = "reg"
    /\ now \in Days
    /\ file = AbsentFile
    /\ ignoreList = NewIgnoreList
    /\ probe = NoProbe
    /\ RunIdle

RegAddProcessedHash ==
    /\ pc = "reg"
    /\ GetHashCount(ignoreList) < MaxReg
    /\ \E h \in RegHashes, id \in RegIDs :
          /\ ignoreList' = AddProcessedHash(ignoreList, h, id, now)
          /\ probe' = [stage |-> "added", hash |-> h, before |-> ignoreList]
    /\ UNCHANGED <<pc, now, file, runVars>>

RegAddIgnoredHash ==
    /\ pc = "reg"
    /\ GetHashCount(ignoreList) < MaxReg
    /\ \E h \in RegHashes :
          /\ ignoreList' = AddIgnoredHash(ignoreList, h, now)
          /\ probe' = [stage |-> "added", hash |-> h, before |-> ignoreList]
    /\ UNCHANGED <<pc, now, file, runVars>>

RegClockTick ==
    /\ pc = "reg"
    /\ now = "2025-12-20"
    /\ now' = "2025-12-21"
    /\ UNCHANGED <<pc, file, ignoreList, probe, runVars>>

NextReg == RegAddProcessedHash \/ RegAddIgnoredHash \/ RegClockTick

SpecReg == InitReg /\ [][NextReg]_vars

(***************************************************************************)
(* SpecYaml: a registry file is read, written back and read again.         *)
(***************************************************************************)
YamlKeys == {"hash", "reason", "added_on"}
YamlHashes == {<<"h", "1">>, <<"H", "1">>}
YamlReasons == {<<"first">>, <<"second">>}

YamlItems ==
    {YamlItem(k, h, r) : k \in SUBSET YamlKeys, h \in YamlHashes \cup {<<>>},
                         r \in YamlReasons \cup {<<>>}}

\* The items a file can hold: an absent key has no value.
WellFormedItem(y) ==
    /\ ("hash" \in y.keys) \/ y.hash = <<>>
    /\ ("reason" \in y.keys) \/ y.reason = <<>>

YamlFiles ==
    {ZeroFile, MalformedFile}
        \cup {Doc(items) : items \in SeqsUpTo({y \in YamlItems : WellFormedItem(y)},
                                              MaxYamlItems)}

InitYaml ==
    /\ pc = "yaml"
    /\ now \in {"2025-12-20"}
    /\ file \in YamlFiles
    /\ ignoreList = NewIgnoreList
    /\ probe = [stage |-> "source", x |-> file, first |-> <<>>, second |-> <<>>]
    /\ RunIdle

YamlRead ==
    /\ pc = "yaml"
    /\ probe.stage = "source"
    /\ LET r == FromYAML(file)
       IN  IF r.err
           THEN /\ probe' = [probe EXCEPT !.stage = "error"]
                /\ UNCHANGED ignoreList
           ELSE /\ probe' = [probe EXCEPT !.stage = "read", !.first = r.hashes]
                /\ ignoreList' = r.hashes
    /\ UNCHANGED <<pc, now, file, runVars>>

YamlWrite ==
    /\ pc = "yaml"
    /\ probe.stage = "read"
    /\ file' = ToYAML(ignoreList)
    /\ probe' = [probe EXCEPT !.stage = "written"]
    /\ UNCHANGED <<pc, now, ignoreList, runVars>>

YamlReadAgain ==
    /\ pc = "yaml"
    /\ probe.stage = "written"
    /\ LET r == FromYAML(file)
       IN  IF r.err
           THEN /\ probe' = [probe EXCEPT !.stage = "error"]
                /\ UNCHANGED ignoreList
           ELSE /\ probe' = [probe EXCEPT !.stage = "reread", !.second = r.hashes]
                /\ ignoreList' = r.hashes
    /\ UNCHANGED <<pc, now, file, runVars>>

NextYaml == YamlRead \/ YamlWrite \/ YamlReadAgain

SpecYaml == InitYaml /\ [][NextYaml]_vars

(***************************************************************************)
(* SpecMatch: the matcher applied to one YNAB transaction, one wallet      *)
(* address and one pool of transfers.                                      *)
(***************************************************************************)
TokenDecimals == 6
MatchDate == 10 * HoursPerDay
BaseTime == MatchDate + 3

MatchWallets == {<<"a", "B">>, <<"A", "B">>}
MatchFroms == {<<"a", "b">>, <<"A", "B">>, <<"c", "d">>}
MatchTos == {<<"a", "B">>, <<"c", "d">>}
MatchAmounts == {1000000, 999999, 0, NilAmount}
\* day 8 noon, day 9 midnight, day 9 23h, day 10 3h, day 11 23h, day 12 midnight
MatchTimes == {8 * HoursPerDay + 12, 9 * HoursPerDay, 9 * HoursPerDay + 23,
               BaseTime, 11 * HoursPerDay + 23, 12 * HoursPerDay}
MatchTxns ==
    {[ID |-> "t1", Amount |-> a, Date |-> MatchDate] : a \in {-1000, 0, 1000}}

\* Every address and amount at the base time; at the other times the
\* transfers whose amount is one whole unit and that touch the wallet.
MatchXfrs ==
    {[FromAddress |-> f, ToAddress |-> t, Amount |-> a, ExecutionTime |-> e,
      TransactionHash |-> <<"h", "1">>] :
        f \in MatchFroms, t \in MatchTos, a \in MatchAmounts, e \in MatchTimes}

MatchUniverse ==
    {x \in MatchXfrs :
        \/ x.ExecutionTime = BaseTime
        \/ /\ x.Amount = 1000000
           /\ (x.FromAddress = <<"c", "d">>) # (x.ToAddress = <<"c", "d">>)}

PtrNames == <<"p1", "p2", "p3", "p4", "p5", "p6">>

WithPtrs(xs) ==
    [i \in DOMAIN xs |->
        [ptr |-> PtrNames[i], FromAddress |-> xs[i].FromAddress,
         ToAddress |-> xs[i].ToAddress, Amount |-> xs[i].Amount,
         ExecutionTime |-> xs[i].ExecutionTime,
         TransactionHash |-> xs[i].TransactionHash]]

Ptrs(xs) == [i \in DOMAIN xs |-> xs[i].ptr]

InitMatch ==
    /\ pc = "matcher"
    /\ now \in {"2025-12-20"}
    /\ file = AbsentFile
    /\ ignoreList = NewIgnoreList
    /\ \E t \in MatchTxns, w \in MatchWallets,
          xs \in SeqsUpTo(MatchUniverse, MaxMatchPool) :
          probe = [stage |-> "in", txn |-> t, address |-> w,
                   decimals |-> TokenDecimals, pool |-> WithPtrs(xs),
                   matches |-> <<>>, single |-> NoPtr]
    /\ RunIdle

ApplyMatchTransfers ==
    /\ pc = "matcher"
    /\ probe.stage = "in"
    /\ probe' = [probe EXCEPT
          !.stage = "out",
          !.matches = MatchTransfers(probe.txn, probe.address, probe.decimals,
                                     probe.pool),
          !.single = MatchTransfer(probe.txn, probe.address, probe.decimals,
                                   probe.pool)]
    /\ UNCHANGED <<pc, now, file, ignoreList, runVars>>

NextMatch == ApplyMatchTransfers

SpecMatch == InitMatch /\ [][NextMatch]_vars

(***************************************************************************)
(* SpecAmount: the matcher applied to transfers of the right day and side, *)
(* for several numbers of decimals and amounts.                            *)
(***************************************************************************)
MaxAmountPool == 1

AmountDecimals == {0, 2, 3, 6}
AmountTxns ==
    {[ID |-> "t1", Amount |-> a, Date |-> MatchDate] :
        a \in {-1005, -1000, -15, 0, 15, 1000, 1005}}
AmountBaseUnits ==
    {NilAmount, 0, 1, 2, 15, 100, 101, 1000, 1005, 15000, 999999, 1000000,
     1000001, 1005000}
\* transfers between the wallet and another address, in both directions
AmountUniverse ==
    {[FromAddress |-> f, ToAddress |-> t, Amount |-> a,
      ExecutionTime |-> BaseTime, TransactionHash |-> <<"h", "1">>] :
        f \in {<<"a", "b">>, <<"c", "d">>}, t \in {<<"a", "b">>, <<"c", "d">>},
        a \in AmountBaseUnits}

InitAmount ==
    /\ pc = "matcher"
    /\ now \in {"2025-12-20"}
    /\ file = AbsentFile
    /\ ignoreList = NewIgnoreList
    /\ \E t \in AmountTxns, d \in AmountDecimals,
          xs \in SeqsUpTo({x \in AmountUniverse : x.FromAddress # x.ToAddress},
                          MaxAmountPool) :
          probe = [stage |-> "in", txn |-> t, address |-> <<"a", "b">>,
                   decimals |-> d, pool |-> WithPtrs(xs),
                   matches |-> <<>>, single |-> NoPtr]
    /\ RunIdle

SpecAmount == InitAmount /\ [][NextMatch]_vars

(***************************************************************************)
(* The YNAB client: MarkTransactionClearedAndAppendMemo.  A memo is a      *)
(* sequence of tokens; a token is a sequence of strings, so that a hash is *)
(* a token.                                                                *)
(***************************************************************************)
MemoContains(existing, txHash) == \E i \in DOMAIN existing : existing[i] = txHash

\* A memo to which the hash is always appended, to compare computeMemo with.
computeMemoAlwaysAppend(existing, txHash) ==
    existing \o <<<<"; transaction hash:">>, txHash>>

computeMemo(existing, txHash) ==
    IF txHash = <<>> THEN existing
    ELSE IF existing = <<>> THEN <<<<"Transaction hash:">>, txHash>>
    ELSE IF MemoContains(existing, txHash) THEN existing
    ELSE existing \o <<<<"; transaction hash:">>, txHash>>

\* White space as a token of a memo.
Space == <<" ">>

\* strings.TrimSpace: the memo without its leading and trailing white space.
RECURSIVE TrimSpace(_)
TrimSpace(memo) ==
    IF memo = <<>> THEN memo
    ELSE IF Head(memo) = Space THEN TrimSpace(Tail(memo))
    ELSE IF memo[Len(memo)] = Space
    THEN TrimSpace(SubSeq(memo, 1, Len(memo) - 1))
    ELSE memo

\* The state of YNAB after the request: the transaction is fetched, then
\* updated with the memo computed from its trimmed memo and the status
\* "cleared"; either step can fail, and then nothing changes.
MarkTransactionClearedAndAppendMemo(state, transactionID, txHash, result) ==
    IF result = "ok"
    THEN [state EXCEPT ![transactionID] =
              [memo |-> computeMemo(TrimSpace(state[transactionID].memo),
                                    txHash),
               cleared |-> TRUE]]
    ELSE state

(***************************************************************************)
(* SpecMemo: MarkTransactionClearedAndAppendMemo called again and again    *)
(* for one transaction and one hash.                                       *)
(***************************************************************************)
MaxMemoLen == 3
MaxSettles == 2

MemoHashes == {<<"h", "1">>, <<"h", "2">>}
MemoTokens == {Space, <<"note">>} \cup MemoHashes
MemoResults == {"ok", "fetchFailed", "updateFailed"}

InitMemo ==
    /\ pc = "memo"
    /\ now \in {"2025-12-20"}
    /\ file = AbsentFile
    /\ ignoreList = NewIgnoreList
    /\ \E m \in SeqsUpTo(MemoTokens, MaxMemoLen), h \in MemoHashes,
          c \in BOOLEAN :
          probe = [stage |-> "in", hash |-> h, settles |-> 0, oks |-> 0,
                   result |-> "none", first |-> m, before |-> m,
                   state |-> [id \in {"t1"} |-> [memo |-> m, cleared |-> c]]]
    /\ RunIdle

SettleAgain ==
    /\ pc = "memo"
    /\ probe.settles < MaxSettles
    /\ \E result \in MemoResults :
          probe' = [probe EXCEPT
              !.stage = "out",
              !.settles = @ + 1,
              !.oks = IF result = "ok" THEN @ + 1 ELSE @,
              !.result = result,
              !.before = probe.state["t1"].memo,
              !.state = MarkTransactionClearedAndAppendMemo(
                            probe.state, "t1", probe.hash, result)]
    /\ UNCHANGED <<pc, now, file, ignoreList, runVars>>

NextMemo == SettleAgain

SpecMemo == InitMemo /\ [][NextMemo]_vars

(***************************************************************************)
(* The import of the remaining transfers.                                  *)
(***************************************************************************)
decimalPrecision == 2

minimumAmount(decimals) == Pow10(decimals - decimalPrecision)

\* [ok, isOutbound]
determineDirection(xfr, walletAddress) ==
    IF EqualFold(xfr.FromAddress, walletAddress)
    THEN [ok |-> TRUE, isOutbound |-> TRUE]
    ELSE IF EqualFold(xfr.ToAddress, walletAddress)
    THEN [ok |-> TRUE, isOutbound |-> FALSE]
    ELSE [ok |-> FALSE, isOutbound |-> FALSE]

\* A threshold that also drops the minimum amount itself, to compare
\* isBelowMinimum with.
isBelowOrAtMinimum(xfr, decimals) == xfr.Amount <= minimumAmount(decimals)

isBelowMinimum(xfr, decimals) == xfr.Amount < minimumAmount(decimals)

RECURSIVE BitLen(_)
BitLen(n) == IF n = 0 THEN 0 ELSE 1 + BitLen(Abs(n) \div 2)

\* A conversion that rounds to the nearest thousandth, to compare
\* convertToYNABAmount with.
convertToYNABAmountRounded(amount, decimals, isOutbound) ==
    LET quo == (amount * 1000 + Pow10(decimals) \div 2) \div Pow10(decimals)
    IN  [err |-> FALSE, value |-> IF isOutbound THEN -quo ELSE quo]

\* [err, value]
convertToYNABAmount(amount, decimals, isOutbound) ==
    LET quo == (amount * 1000) \div Pow10(decimals)
        ynabMilli == IF isOutbound THEN -quo ELSE quo
    IN  IF BitLen(ynabMilli) > 63
        THEN [err |-> TRUE, value |-> 0]
        ELSE [err |-> FALSE, value |-> ynabMilli]

\* promptMemo: the hash is appended to the text the caller typed unless the
\* text contains it.
promptMemoText(typed, txHash) ==
    IF MemoContains(typed, txHash)
    THEN typed
    ELSE typed \o <<<<"; transaction hash:">>, txHash>>

(***************************************************************************)
(* The run of main().                                                      *)
(***************************************************************************)
Wallet == <<"a", "B">>

X1 == [ptr |-> "x1", FromAddress |-> <<"a", "b">>, ToAddress |-> <<"c", "d">>,
       Amount |-> 1000000, ExecutionTime |-> 10 * HoursPerDay + 3,
       TransactionHash |-> <<"h", "1">>]
\* a second row of the export with the hash of the first
X2 == [ptr |-> "x2", FromAddress |-> <<"A", "B">>, ToAddress |-> <<"c", "d">>,
       Amount |-> 1000000, ExecutionTime |-> 11 * HoursPerDay + 7,
       TransactionHash |-> <<"h", "1">>]
\* a transfer to the wallet of exactly the minimum amount, 0.01 token
X3 == [ptr |-> "x3", FromAddress |-> <<"c", "d">>, ToAddress |-> <<"a", "b">>,
       Amount |-> 10000, ExecutionTime |-> 9 * HoursPerDay + 23,
       TransactionHash |-> <<"h", "3">>]
\* a transfer between two other addresses
X4 == [ptr |-> "x4", FromAddress |-> <<"c", "d">>, ToAddress |-> <<"e", "f">>,
       Amount |-> 1000000, ExecutionTime |-> 10 * HoursPerDay + 3,
       TransactionHash |-> <<"h", "4">>]
\* a transfer to the wallet below the minimum amount
X5 == [ptr |-> "x5", FromAddress |-> <<"c", "d">>, ToAddress |-> <<"a", "B">>,
       Amount |-> 9999, ExecutionTime |-> 10 * HoursPerDay + 3,
       TransactionHash |-> <<"h", "5">>]

Xfrs == {X1, X2, X3, X4, X5}

T1 == [ID |-> "t1", Amount |-> -1000, Date |-> 10 * HoursPerDay]
T2 == [ID |-> "t2", Amount |-> -1000, Date |-> 11 * HoursPerDay]
T3 == [ID |-> "t3", Amount |-> 10, Date |-> 10 * HoursPerDay]

Txns == {T1, T2, T3}
TxnIDs == {t.ID : t \in Txns}

Distinct(xs) == \A i, j \in DOMAIN xs : xs[i] = xs[j] => i = j

Pools == {xs \in SeqsUpTo(Xfrs, MaxPool) : Distinct(xs)}
Accounts == {ts \in SeqsUpTo(Txns, MaxEntries) : Distinct(ts)}

InitialLedger ==
    [id \in TxnIDs |->
        [memo |-> IF id = "t3" THEN <<<<"note">>>> ELSE <<>>,
         cleared |-> FALSE]]

RunFiles ==
    {AbsentFile, ZeroFile, MalformedFile, Doc(<<>>),
     Doc(<<YamlItem({"hash", "reason"}, <<"H", "1">>, <<"first">>)>>)}

NoRegistry == [valid |-> FALSE, hashes |-> <<>>]

Init ==
    /\ pc = "initRun"
    /\ run = 1
    /\ now = "2025-12-20"
    /\ file \in RunFiles
    /\ ignoreList = <<>>
    /\ loaded = NoLoad
    /\ writeHandle = "none"
    /\ persists = 0
    /\ prevRegistry = NoRegistry
    /\ dryRun \in BOOLEAN
    /\ transfers \in Pools
    /\ account \in Accounts
    /\ ledger = InitialLedger
    /\ calls = <<>>
    /\ uncleared = <<>>
    /\ remaining = <<>>
    /\ idx = 0
    /\ matchedCount = 0
    /\ unmatchedCount = 0
    /\ history = <<>>
    /\ offered = <<>>
    /\ outcome = "none"
    /\ probe = NoProbe

loopVars == <<uncleared, remaining, idx, matchedCount, unmatchedCount, history,
              offered>>

\* main: initRun, which reads the arguments, the token details and the export.
InitRun ==
    /\ pc = "initRun"
    /\ \E ok \in BOOLEAN : pc' = IF ok THEN "loadIgnoreList" ELSE "exit"
    /\ UNCHANGED <<run, now, file, ignoreList, loaded, writeHandle, persists,
                   prevRegistry, dryRun, transfers, account, ledger, calls,
                   loopVars, outcome, probe>>

\* main: the registry is read from the file when the file exists.
LoadIgnoreList ==
    /\ pc = "loadIgnoreList"
    /\ \E io \in {"ok", "statError", "openError"} :
          IF io = "statError" \/ (io = "openError" /\ file.kind # "absent")
          THEN /\ loaded' = [status |-> "ioError", source |-> file.kind, hashes |-> <<>>]
               /\ pc' = "exit"
               /\ UNCHANGED ignoreList
          ELSE IF file.kind = "absent"
          THEN /\ ignoreList' = NewIgnoreList
               /\ loaded' = [status |-> "ok", source |-> file.kind,
                             hashes |-> NewIgnoreList]
               /\ pc' = "openWriteHandle"
          ELSE LET r == FromYAML(file)
               IN  IF r.err
                   THEN /\ loaded' = [status |-> "parseError",
                                     source |-> file.kind, hashes |-> <<>>]
                        /\ pc' = "exit"
                        /\ UNCHANGED ignoreList
                   ELSE /\ ignoreList' = r.hashes
                        /\ loaded' = [status |-> "ok", source |-> file.kind,
                                     hashes |-> r.hashes]
                        /\ pc' = "openWriteHandle"
    /\ UNCHANGED <<run, now, file, writeHandle, persists, prevRegistry, dryRun,
                   transfers, account, ledger, calls, loopVars, outcome, probe>>

\* main: os.Create when the file did not exist, os.Open (read-only) when it
\* did; then the write of the registry is deferred.
OpenHandle(f) == IF f.kind = "absent" THEN "created" ELSE "readonly"

OpenWriteHandle ==
    /\ pc = "openWriteHandle"
    /\ \E ok \in BOOLEAN :
          IF ok
          THEN /\ writeHandle' = OpenHandle(file)
               /\ file' = IF file.kind = "absent" THEN ZeroFile ELSE file
               /\ pc' = "getAccessToken"
          ELSE /\ pc' = "exit"
               /\ UNCHANGED <<writeHandle, file>>
    /\ UNCHANGED <<run, now, ignoreList, loaded, persists, prevRegistry, dryRun,
                   transfers, account, ledger, calls, loopVars, outcome, probe>>

GetAccessToken ==
    /\ pc = "getAccessToken"
    /\ \E ok \in BOOLEAN :
          /\ pc' = IF ok THEN "runSync" ELSE "deferred"
          /\ outcome' = IF ok THEN outcome ELSE "noToken"
    /\ UNCHANGED <<run, now, file, ignoreList, loaded, writeHandle, persists,
                   prevRegistry, dryRun, transfers, account, ledger, calls,
                   loopVars, probe>>

filterUncleared(transactions, state) ==
    SelectSeq(transactions, LAMBDA txn : ~state[txn.ID].cleared)

\* runSync up to the loop of processUnclearedTransactions: the account is
\* selected, its uncleared transactions are fetched, the pool is copied.
FetchUncleared ==
    /\ pc = "runSync"
    /\ \E ok \in BOOLEAN :
          IF ok
          THEN /\ uncleared' = filterUncleared(account, ledger)
               /\ remaining' = transfers
               /\ idx' = 1
               /\ pc' = "matchLoop"
               /\ UNCHANGED outcome
          ELSE /\ outcome' = "error"
               /\ pc' = "deferred"
               /\ UNCHANGED <<uncleared, remaining, idx>>
    /\ UNCHANGED <<run, now, file, ignoreList, loaded, writeHandle, persists,
                   prevRegistry, dryRun, transfers, account, ledger, calls,
                   matchedCount, unmatchedCount, history, offered, probe>>

(***************************************************************************)
(* The match loop of processUnclearedTransactions.                         *)
(***************************************************************************)
\* chooseTransfer sorts by amount, then by execution time.
SortsBefore(a, b) ==
    \/ a.Amount < b.Amount
    \/ a.Amount = b.Amount /\ a.ExecutionTime < b.ExecutionTime

\* sort.Slice is not stable: every order of the candidates that respects the
\* comparison can be the one shown.
SortedOrders(xs) ==
    {[i \in DOMAIN xs |-> xs[f[i]]] :
        f \in {g \in [DOMAIN xs -> DOMAIN xs] :
                  /\ \A i, j \in DOMAIN xs : g[i] = g[j] => i = j
                  /\ \A i, j \in DOMAIN xs :
                        i < j => ~SortsBefore(xs[g[j]], xs[g[i]])}}

\* How the prompt can end: the caller selects an item of the list (item 0 is
\* "Skip match"), interrupts it, or the prompt fails.
PromptEnds == {"select", "cancel", "fail"}

\* What the caller did at the prompt of chooseTransfer.
PromptAnswer(end, item) ==
    IF end # "select" THEN end ELSE IF item = 0 THEN "skip" ELSE "pick"

\* A prompt whose "Skip match" returns the first transfer of the list, to
\* compare resolveMatchingTransfer with.
resolveSkipTakesFirst(matchingTransfers, sorted, end, item) ==
    IF Len(matchingTransfers) = 0
    THEN [err |-> FALSE, prompted |-> FALSE, answer |-> "none",
          transfer |-> NoPtr]
    ELSE IF Len(matchingTransfers) = 1
    THEN [err |-> FALSE, prompted |-> FALSE, answer |-> "none",
          transfer |-> matchingTransfers[1].ptr]
    ELSE IF end # "select"
    THEN [err |-> TRUE, prompted |-> TRUE, answer |-> end, transfer |-> NoPtr]
    ELSE [err |-> FALSE, prompted |-> TRUE, answer |-> PromptAnswer(end, item),
          transfer |-> sorted[IF item = 0 THEN 1 ELSE item].ptr]

\* A prompt whose cancellation is taken as "Skip match", to compare
\* resolveMatchingTransfer with.
resolveCancelSkips(matchingTransfers, sorted, end, item) ==
    IF Len(matchingTransfers) = 0
    THEN [err |-> FALSE, prompted |-> FALSE, answer |-> "none",
          transfer |-> NoPtr]
    ELSE IF Len(matchingTransfers) = 1
    THEN [err |-> FALSE, prompted |-> FALSE, answer |-> "none",
          transfer |-> matchingTransfers[1].ptr]
    ELSE IF end # "select" \/ item = 0
    THEN [err |-> FALSE, prompted |-> TRUE, answer |-> PromptAnswer(end, item),
          transfer |-> NoPtr]
    ELSE [err |-> FALSE, prompted |-> TRUE, answer |-> "pick",
          transfer |-> sorted[item].ptr]

\* resolveMatchingTransfer: [err, prompted, answer, transfer]; transfer is
\* NoPtr for nil, answer is what the caller did at the prompt.
resolveMatchingTransfer(matchingTransfers, sorted, end, item) ==
    IF Len(matchingTransfers) = 0
    THEN [err |-> FALSE, prompted |-> FALSE, answer |-> "none",
          transfer |-> NoPtr]
    ELSE IF Len(matchingTransfers) = 1
    THEN [err |-> FALSE, prompted |-> FALSE, answer |-> "none",
          transfer |-> matchingTransfers[1].ptr]
    ELSE IF end # "select"
    THEN [err |-> TRUE, prompted |-> TRUE, answer |-> end, transfer |-> NoPtr]
    ELSE IF item = 0
    THEN [err |-> FALSE, prompted |-> TRUE, answer |-> "skip",
          transfer |-> NoPtr]
    ELSE [err |-> FALSE, prompted |-> TRUE, answer |-> "pick",
          transfer |-> sorted[item].ptr]

\* A loop that leaves the matched transfer in the pool, to compare
\* RemoveTransfer with.
KeepTransfer(pool, ptr) == pool

RECURSIVE RemoveFrom(_, _, _)
RemoveFrom(pool, i, ptr) ==
    IF i = 0 THEN pool
    ELSE IF pool[i].ptr = ptr
    THEN RemoveFrom(SubSeq(pool, 1, i - 1) \o SubSeq(pool, i + 1, Len(pool)),
                    i - 1, ptr)
    ELSE RemoveFrom(pool, i - 1, ptr)

\* A removal that also drops every transfer after the matched one, to compare
\* RemoveTransfer with.
RECURSIVE RemoveTransferAndRest(_, _)
RemoveTransferAndRest(pool, ptr) ==
    IF pool = <<>> THEN <<>>
    ELSE IF pool[1].ptr = ptr THEN <<>>
    ELSE <<pool[1]>> \o RemoveTransferAndRest(Tail(pool), ptr)

\* Remove the matched transfer from remainingTransfers.
RemoveTransfer(pool, ptr) == RemoveFrom(pool, Len(pool), ptr)

ByPtr(pool, ptr) == CHOOSE x \in Range(pool) : x.ptr = ptr

ClientResults == {"ok", "fetchFailed", "updateFailed"}

\* A loop that settles nothing, to compare SettleMatch with.
SettleNothing(list, state, log, transactionID, txHash, result, day) ==
    [list |-> list, state |-> state, log |-> log, err |-> FALSE]

\* A loop that returns the error of the YNAB client, to compare SettleMatch
\* with.
SettleMatchFatal(list, state, log, transactionID, txHash, result, day) ==
    [list |-> AddProcessedHash(list, txHash, transactionID, day),
     state |-> MarkTransactionClearedAndAppendMemo(state, transactionID, txHash,
                                                   result),
     log |-> Append(log, [op |-> "MarkTransactionClearedAndAppendMemo",
                          id |-> transactionID, hash |-> txHash,
                          result |-> result]),
     err |-> result # "ok"]

\* handleMatchedTransaction, then ignoreList.AddProcessedHash; err is the
\* error the loop returns: an error of handleMatchedTransaction is logged and
\* not returned.
SettleMatch(list, state, log, transactionID, txHash, result, day) ==
    [list |-> AddProcessedHash(list, txHash, transactionID, day),
     state |-> MarkTransactionClearedAndAppendMemo(state, transactionID, txHash,
                                                   result),
     log |-> Append(log, [op |-> "MarkTransactionClearedAndAppendMemo",
                          id |-> transactionID, hash |-> txHash,
                          result |-> result]),
     err |-> FALSE]

\* One iteration of the loop over unclearedTransactions.
MatchEntry ==
    /\ pc = "matchLoop"
    /\ idx <= Len(uncleared)
    /\ LET txn == uncleared[idx]
           matching == MatchTransfers(txn, Wallet, TokenDecimals, remaining)
       IN  \E sorted \in SortedOrders(matching),
              end \in PromptEnds, item \in 0 .. Len(matching),
              result \in ClientResults :
              LET r == resolveMatchingTransfer(matching, sorted, end, item)
                  h == [id |-> txn.ID, matches |-> Ptrs(matching),
                        prompted |-> r.prompted, answer |-> r.answer,
                        chosen |-> r.transfer,
                        pool |-> Ptrs(remaining),
                        settled |-> r.transfer # NoPtr /\ ~dryRun]
              IN  IF r.err
                  THEN /\ outcome' = "error"
                       /\ pc' = "deferred"
                       /\ history' = Append(history, h)
                       /\ UNCHANGED <<ignoreList, ledger, calls, remaining, idx,
                                      matchedCount, unmatchedCount>>
                  ELSE IF r.transfer = NoPtr
                  THEN /\ unmatchedCount' = unmatchedCount + 1
                       /\ idx' = idx + 1
                       /\ history' = Append(history, h)
                       /\ UNCHANGED <<ignoreList, ledger, calls, remaining,
                                      matchedCount, outcome, pc>>
                  ELSE LET x == ByPtr(remaining, r.transfer)
                           done == IF dryRun
                                   THEN [list |-> ignoreList, state |-> ledger,
                                         log |-> calls, err |-> FALSE]
                                   ELSE SettleMatch(ignoreList, ledger, calls,
                                            txn.ID, x.TransactionHash, result, now)
                       IN  /\ matchedCount' = matchedCount + 1
                           /\ ignoreList' = done.list
                           /\ ledger' = done.state
                           /\ calls' = done.log
                           /\ history' = Append(history, h)
                           /\ UNCHANGED unmatchedCount
                           /\ IF done.err
                              THEN /\ outcome' = "error"
                                   /\ pc' = "deferred"
                                   /\ UNCHANGED <<remaining, idx>>
                              ELSE /\ remaining' = RemoveTransfer(remaining,
                                                                 r.transfer)
                                   /\ idx' = idx + 1
                                   /\ UNCHANGED <<outcome, pc>>
    /\ UNCHANGED <<run, now, file, loaded, writeHandle, persists, prevRegistry,
                   dryRun, transfers, account, uncleared, offered, probe>>

\* The loop is over: processUnclearedTransactions returns the remaining
\* transfers and ImportRemainingTransfers builds its importer.
StartImport ==
    /\ pc = "matchLoop"
    /\ idx > Len(uncleared)
    /\ IF TokenDecimals < decimalPrecision
       THEN /\ outcome' = "error"
            /\ pc' = "deferred"
            /\ UNCHANGED idx
       ELSE /\ pc' = "importLoop"
            /\ idx' = 1
            /\ UNCHANGED outcome
    /\ UNCHANGED <<run, now, file, ignoreList, loaded, writeHandle, persists,
                   prevRegistry, dryRun, transfers, account, ledger, calls,
                   uncleared, remaining, matchedCount, unmatchedCount, history,
                   offered, probe>>

(***************************************************************************)
(* The loop of transferImporter.processTransfers.                          *)
(***************************************************************************)
\* What the caller and the YNAB client can do for one offered transfer.
ImportScripts ==
    {"skip", "ignore", "cancel", "promptFailed", "payeeCanceled", "payeeFailed",
     "memoCanceled", "memoFailed", "created", "createFailed"}

TypedMemos == {<<>>, <<<<"note">>>>}

\* An import whose choices record nothing and create nothing, to compare
\* processOffered with.
processOfferedNoEffect(list, log, xfr, isOutbound, script, typed, decimals, day) ==
    [canceled |-> script \in {"cancel", "payeeCanceled", "memoCanceled"},
     list |-> list, log |-> log]

\* An import that any failure stops like a cancellation, to compare
\* processOffered with.
processOfferedFailureStops(list, log, xfr, isOutbound, script, typed, decimals, day) ==
    [canceled |-> script \notin {"skip", "ignore", "created"},
     list |-> IF script = "ignore"
              THEN AddIgnoredHash(list, xfr.TransactionHash, day)
              ELSE list,
     log |-> log]

\* processTransfer for a transfer that is offered: [canceled, list, log].
processOffered(list, log, xfr, isOutbound, script, typed, decimals, day) ==
    IF script \in {"cancel", "payeeCanceled", "memoCanceled"}
    THEN [canceled |-> TRUE, list |-> list, log |-> log]
    ELSE IF script = "ignore"
    THEN [canceled |-> FALSE,
          list |-> AddIgnoredHash(list, xfr.TransactionHash, day),
          log |-> log]
    ELSE IF script \in {"created", "createFailed"}
    THEN LET amt == convertToYNABAmount(xfr.Amount, decimals, isOutbound)
         IN  IF amt.err
             THEN [canceled |-> FALSE, list |-> list, log |-> log]
             ELSE [canceled |-> FALSE, list |-> list,
                   log |-> Append(log,
                       [op |-> "CreateTransaction", id |-> "new",
                        hash |-> xfr.TransactionHash,
                        amount |-> amt.value,
                        memo |-> promptMemoText(typed, xfr.TransactionHash),
                        result |-> IF script = "created" THEN "ok"
                                   ELSE "createFailed"])]
    ELSE [canceled |-> FALSE, list |-> list, log |-> log]

\* One iteration of the loop over the remaining transfers.
ImportTransfer ==
    /\ pc = "importLoop"
    /\ idx <= Len(remaining)
    /\ LET xfr == remaining[idx]
           dir == determineDirection(xfr, Wallet)
       IN  IF ~dir.ok \/ isBelowMinimum(xfr, TokenDecimals)
           THEN /\ idx' = idx + 1
                /\ UNCHANGED <<ignoreList, calls, offered, outcome, pc, probe>>
           ELSE \E script \in ImportScripts, typed \in TypedMemos :
                   LET r == processOffered(ignoreList, calls, xfr, dir.isOutbound,
                                           script, typed, TokenDecimals, now)
                   IN  /\ offered' = Append(offered, xfr.ptr)
                       /\ probe' = [stage |-> "import", script |-> script]
                       /\ ignoreList' = r.list
                       /\ calls' = r.log
                       /\ IF r.canceled
                          THEN /\ outcome' = "error"
                               /\ pc' = "deferred"
                               /\ UNCHANGED idx
                          ELSE /\ idx' = idx + 1
                               /\ UNCHANGED <<outcome, pc>>
    /\ UNCHANGED <<run, now, file, loaded, writeHandle, persists, prevRegistry,
                   dryRun, transfers, account, ledger, uncleared, remaining,
                   matchedCount, unmatchedCount, history>>

\* processTransfers returns nil; runSync and main return.
FinishImport ==
    /\ pc = "importLoop"
    /\ idx > Len(remaining)
    /\ outcome' = "ok"
    /\ pc' = "deferred"
    /\ UNCHANGED <<run, now, file, ignoreList, loaded, writeHandle, persists,
                   prevRegistry, dryRun, transfers, account, ledger, calls,
                   loopVars, probe>>

\* What the file holds after ToYAML wrote to the handle: a write to the
\* read-only handle of os.Open fails and leaves the file as it was.
WriteThrough(handle, f, hashes) ==
    IF handle = "created" THEN ToYAML(hashes) ELSE f

\* main's deferred functions: ToYAML on the write handle, then Close.
PersistIgnoreList ==
    /\ pc = "deferred"
    /\ file' = WriteThrough(writeHandle, file, ignoreList)
    /\ persists' = persists + 1
    /\ pc' = "exit"
    /\ UNCHANGED <<run, now, ignoreList, loaded, writeHandle, prevRegistry,
                   dryRun, transfers, account, ledger, calls, loopVars, outcome,
                   probe>>

\* The program is started again, the same day or the next, on the same export
\* and account.
NextRun ==
    /\ pc = "exit"
    /\ run = 1
    /\ run' = 2
    /\ now' \in Days
    /\ prevRegistry' = [valid |-> loaded.status = "ok", hashes |-> ignoreList]
    /\ pc' = "initRun"
    /\ ignoreList' = <<>>
    /\ loaded' = NoLoad
    /\ writeHandle' = "none"
    /\ persists' = 0
    /\ calls' = <<>>
    /\ uncleared' = <<>>
    /\ remaining' = <<>>
    /\ idx' = 0
    /\ matchedCount' = 0
    /\ unmatchedCount' = 0
    /\ history' = <<>>
    /\ offered' = <<>>
    /\ outcome' = "none"
    /\ probe' = NoProbe
    /\ UNCHANGED <<file, dryRun, transfers, account, ledger>>

\* One run of the program.
Next ==
    \/ InitRun
    \/ LoadIgnoreList
    \/ OpenWriteHandle
    \/ GetAccessToken
    \/ FetchUncleared
    \/ MatchEntry
    \/ StartImport
    \/ ImportTransfer
    \/ FinishImport
    \/ PersistIgnoreList

Spec == Init /\ [][Next]_vars

\* Two runs of the program, one after the other.
NextRuns ==
    \/ InitRun
    \/ LoadIgnoreList
    \/ OpenWriteHandle
    \/ GetAccessToken
    \/ FetchUncleared
    \/ MatchEntry
    \/ StartImport
    \/ ImportTransfer
    \/ FinishImport
    \/ PersistIgnoreList
    \/ NextRun

SpecRuns == Init /\ [][NextRuns]_vars

(***************************************************************************)
(* Claims about the registry alone and about the matcher.                  *)
(***************************************************************************)

\* C6: after any sequence of AddProcessedHash and AddIgnoredHash calls on a
\* registry that started empty, the registry holds at most one entry per hash
\* (compared case-insensitively), and adding a hash that is already present
\* leaves the registry as it was.
C6_AtMostOneEntryPerHash ==
    pc = "reg" =>
        /\ \A i, j \in DOMAIN ignoreList :
              EqualFold(ignoreList[i].Hash, ignoreList[j].Hash) => i = j
        /\ (probe.stage = "added" /\ IsHashIgnored(probe.before, probe.hash))
              => ignoreList = probe.before

\* C7: reading a registry file, writing the registry back and reading the
\* written file again gives the same ordered {hash, reason} pairs as the
\* first read.
C7_RoundTrip ==
    (pc = "yaml" /\ probe.stage = "reread") => probe.second = probe.first

\* C7's case: a source of two different items, one carrying a key the
\* registry does not keep and one lacking its reason, has been read, written
\* and read again.
C7_Witness ==
    /\ pc = "yaml"
    /\ probe.stage = "reread"
    /\ Len(probe.x.items) = 2
    /\ "added_on" \in probe.x.items[1].keys
    /\ probe.x.items[1].reason # <<>>
    /\ "reason" \notin probe.x.items[2].keys
    /\ probe.first[1] # probe.first[2]

DayDifference(tr, ynabTransaction) ==
    (tr.ExecutionTime \div 24) - (ynabTransaction.Date \div 24)

IsMatched(tr) == \E j \in DOMAIN probe.matches : probe.matches[j].ptr = tr.ptr

UpperChar(c) ==
    CASE c = "a" -> "A"
      [] c = "b" -> "B"
      [] c = "c" -> "C"
      [] c = "d" -> "D"
      [] c = "e" -> "E"
      [] c = "f" -> "F"
      [] c = "g" -> "G"
      [] c = "h" -> "H"
      [] c = "i" -> "I"
      [] c = "j" -> "J"
      [] c = "k" -> "K"
      [] c = "l" -> "L"
      [] c = "m" -> "M"
      [] c = "n" -> "N"
      [] c = "o" -> "O"
      [] c = "p" -> "P"
      [] c = "q" -> "Q"
      [] c = "r" -> "R"
      [] c = "s" -> "S"
      [] c = "t" -> "T"
      [] c = "u" -> "U"
      [] c = "v" -> "V"
      [] c = "w" -> "W"
      [] c = "x" -> "X"
      [] c = "y" -> "Y"
      [] c = "z" -> "Z"
      [] OTHER -> c

ToUpper(s) == [i \in DOMAIN s |-> UpperChar(s[i])]

Recased(pool, upper) ==
    [i \in DOMAIN pool |->
        [pool[i] EXCEPT
            !.FromAddress = IF upper THEN ToUpper(@) ELSE ToLower(@),
            !.ToAddress = IF upper THEN ToUpper(@) ELSE ToLower(@)]]

RightSide(ynabTransaction, address, tr) ==
    IF ynabTransaction.Amount < 0
    THEN ToLower(tr.FromAddress) = ToLower(address)
    ELSE ToLower(tr.ToAddress) = ToLower(address)

\* C10: a transaction with a negative amount only matches transfers sent from
\* the wallet address, one with a non-negative amount (zero included) only
\* transfers sent to it; and the result is the same for every letter case of
\* the wallet address and of the transfers' addresses.
C10_DirectionRule ==
    (pc = "matcher" /\ probe.stage = "out") =>
        /\ \A j \in DOMAIN probe.matches :
              RightSide(probe.txn, probe.address, probe.matches[j])
        /\ \A i \in DOMAIN probe.pool :
              probe.single = probe.pool[i].ptr
                  => RightSide(probe.txn, probe.address, probe.pool[i])
        /\ \A a \in {ToLower(probe.address), ToUpper(probe.address)} :
              /\ MatchTransfers(probe.txn, a, probe.decimals, probe.pool)
                    = probe.matches
              /\ MatchTransfer(probe.txn, a, probe.decimals, probe.pool)
                    = probe.single
        /\ \A upper \in BOOLEAN :
              /\ Ptrs(MatchTransfers(probe.txn, probe.address, probe.decimals,
                                     Recased(probe.pool, upper)))
                    = Ptrs(probe.matches)
              /\ MatchTransfer(probe.txn, probe.address, probe.decimals,
                               Recased(probe.pool, upper)) = probe.single

\* C10's case: a transaction of amount zero matched a transfer sent to the
\* wallet, the address differing from the wallet's in letter case, while a
\* transfer of the same amount and day sent from the wallet was not matched.
C10_Witness ==
    /\ pc = "matcher"
    /\ probe.stage = "out"
    /\ probe.txn.Amount = 0
    /\ Len(probe.pool) = 2
    /\ IsMatched(probe.pool[1])
    /\ probe.pool[1].ToAddress # probe.address
    /\ ~IsMatched(probe.pool[2])
    /\ EqualFold(probe.pool[2].FromAddress, probe.address)
    /\ probe.pool[2].Amount = probe.pool[1].Amount
    /\ probe.pool[2].ExecutionTime = probe.pool[1].ExecutionTime

(***************************************************************************)
(* Claims about the run of main().                                         *)
(***************************************************************************)
HashOf(ptr) == (CHOOSE x \in Xfrs : x.ptr = ptr).TransactionHash

InPool(ptr, pool) == \E k \in DOMAIN pool : pool[k] = ptr

\* C1: in one run of the match loop no transfer is consumed by more than one
\* YNAB transaction: a transfer chosen as the match of a transaction is absent
\* from the pool every later transaction is matched against (and from the
\* pool the loop returns), so a later transaction that would match only that
\* transfer gets no match.
C1_NoTransferConsumedTwice ==
    \A i \in DOMAIN history :
        history[i].chosen # NoPtr =>
            /\ ~InPool(history[i].chosen, Ptrs(remaining))
            /\ \A j \in DOMAIN history :
                  i < j => /\ ~InPool(history[i].chosen, history[j].pool)
                           /\ ~InPool(history[i].chosen, history[j].matches)
                           /\ history[j].chosen # history[i].chosen

\* C1's case: the second transaction matches, in the export, exactly the
\* transfer the first transaction consumed, and got no match.
C1_Witness ==
    /\ Len(history) = 2
    /\ history[1].chosen # NoPtr
    /\ Ptrs(MatchTransfers(uncleared[2], Wallet, TokenDecimals, transfers))
          = <<history[1].chosen>>
    /\ history[2].matches = <<>>
    /\ history[2].chosen = NoPtr

MarkCalls(id, hash) ==
    {k \in DOMAIN calls :
        /\ calls[k].op = "MarkTransactionClearedAndAppendMemo"
        /\ calls[k].id = id
        /\ calls[k].hash = hash}

\* C2: when a transaction has exactly one matching transfer and the run is
\* not a dry run, then without a prompt, and before the next transaction is
\* examined, the YNAB client has been asked exactly once to mark the
\* transaction cleared with the transfer's hash (which, when the request
\* succeeds, leaves the hash once in the memo), the hash is in the registry
\* as processed for the transaction's id, and the transfer is out of the pool.
C2_SingleMatchSettled ==
    \A i \in DOMAIN history :
        (Len(history[i].matches) = 1 /\ ~dryRun) =>
            LET id == history[i].id
                hash == HashOf(history[i].matches[1])
            IN  /\ ~history[i].prompted
                /\ history[i].chosen = history[i].matches[1]
                /\ Cardinality(MarkCalls(id, hash)) = 1
                /\ \A k \in MarkCalls(id, hash) :
                      calls[k].result = "ok" =>
                          /\ ledger[id].cleared
                          /\ Cardinality({m \in DOMAIN ledger[id].memo :
                                 ledger[id].memo[m] = hash}) = 1
                /\ \E k \in DOMAIN ignoreList :
                      ignoreList[k] = [Hash |-> hash,
                                       Reason |-> ProcessedReason(id, now)]
                /\ ~InPool(history[i].chosen, Ptrs(remaining))

\* C2's case: the loop has just handled a transaction with a single match in
\* a run that is not a dry run, the request succeeded, and the next
\* transaction has not been examined yet.
C2_Witness ==
    /\ pc = "matchLoop"
    /\ ~dryRun
    /\ Len(history) = 1
    /\ idx = 2
    /\ Len(uncleared) = 2
    /\ Len(history[1].matches) = 1
    /\ calls # <<>>
    /\ calls[1].result = "ok"

\* C3: a run that has loaded (or newly created) the registry and opened the
\* file persists the registry exactly once at its end, whatever happened in
\* between, and the file then holds every entry of the in-memory registry.
C3_PersistedAtRunEnd ==
    (pc = "exit" /\ loaded.status = "ok" /\ writeHandle # "none") =>
        /\ persists = 1
        /\ file.kind = "doc"
        /\ FromYAML(file).hashes = ignoreList

\* C4: every {hash, reason} pair in the registry when a run ends is in the
\* registry the next run loads, whether or not the file existed before the
\* first run.
C4_RegistrySurvives ==
    (run = 2 /\ loaded.status = "ok" /\ prevRegistry.valid) =>
        \A k \in DOMAIN prevRegistry.hashes :
            \E m \in DOMAIN loaded.hashes :
                loaded.hashes[m] = prevRegistry.hashes[k]

\* C5: a transfer whose hash is (case-insensitively) in the registry loaded at
\* the start of the run is neither returned as a match of a transaction nor
\* offered to the caller by the import of the remaining transfers.
C5_RegisteredHashNotReconsidered ==
    /\ \A i \in DOMAIN history : \A k \in DOMAIN history[i].matches :
          ~IsHashIgnored(loaded.hashes, HashOf(history[i].matches[k]))
    /\ \A k \in DOMAIN offered :
          ~IsHashIgnored(loaded.hashes, HashOf(offered[k]))

\* C8: an absent registry file and an empty one both load as an empty
\* registry with no error; a malformed one is a parse error, after which the
\* run stops with no YNAB transaction fetched or changed.
C8_LoadOutcome ==
    (loaded.status \notin {"none", "ioError"}) =>
        /\ loaded.source \in {"absent", "zero"} =>
              (loaded.status = "ok" /\ loaded.hashes = <<>>)
        /\ loaded.source = "malformed" =>
              /\ loaded.status = "parseError"
              /\ pc = "exit"
              /\ uncleared = <<>>
              /\ calls = <<>>
              /\ ledger = InitialLedger

(***************************************************************************)
(* Claims about the amount rule and the result of the matcher.             *)
(***************************************************************************)
\* |amount| * 10^decimals, the ledger amount in thousandths of a base unit.
ScaledAmount(amount, decimals) == Abs(amount) * Pow10(decimals)

\* q = floor(|amount| * 10^decimals / 1000), stated without a division.
IsFloorOfScaled(q, amount, decimals) ==
    /\ q >= 0
    /\ q * 1000 <= ScaledAmount(amount, decimals)
    /\ ScaledAmount(amount, decimals) < (q + 1) * 1000

\* C11: a transfer of the right day and side is matched exactly when its
\* amount is present and equals floor(|ledger amount| * 10^decimals / 1000),
\* with no tolerance; the older MatchTransfer applies the same rule.
C11_AmountRule ==
    probe.stage = "out" =>
        /\ \A i \in DOMAIN probe.pool :
              LET tr == probe.pool[i]
              IN  RightSide(probe.txn, probe.address, tr) =>
                     (IsMatched(tr) <=>
                         /\ tr.Amount # NilAmount
                         /\ IsFloorOfScaled(tr.Amount, probe.txn.Amount,
                                            probe.decimals))
        /\ probe.single # NoPtr =>
              \E i \in DOMAIN probe.pool :
                  /\ probe.pool[i].ptr = probe.single
                  /\ probe.pool[i].Amount # NilAmount
                  /\ IsFloorOfScaled(probe.pool[i].Amount, probe.txn.Amount,
                                     probe.decimals)

\* C11's case: for a ledger amount of 1005 and 2 decimals (100.5 base units)
\* the transfer of 100 base units is matched.
C11_Witness ==
    /\ probe.stage = "out"
    /\ probe.decimals = 2
    /\ probe.txn.Amount = 1005
    /\ Len(probe.pool) = 1
    /\ probe.pool[1].Amount = 100
    /\ probe.matches = probe.pool

\* The three rules, stated for one transfer of the probe.
Qualifies(tr) ==
    /\ DayDifference(tr, probe.txn) \in {-1, 0, 1}
    /\ RightSide(probe.txn, probe.address, tr)
    /\ tr.Amount # NilAmount
    /\ IsFloorOfScaled(tr.Amount, probe.txn.Amount, probe.decimals)

LoopStep == pc = "matchLoop" /\ Len(history') = Len(history) + 1

LastEntry == history'[Len(history')]

\* C13: an iteration for a transaction with no matching transfer, or at
\* whose prompt the caller chose "Skip match", counts the transaction as
\* unmatched and changes nothing else: no request to YNAB, no registry entry,
\* the same pool, no error, and the loop is at the next transaction.
C13_UnmatchedChangesNothing ==
    [][(LoopStep /\ (LastEntry.matches = <<>> \/ LastEntry.answer = "skip")) =>
          /\ unmatchedCount' = unmatchedCount + 1
          /\ matchedCount' = matchedCount
          /\ calls' = calls
          /\ ledger' = ledger
          /\ ignoreList' = ignoreList
          /\ remaining' = remaining
          /\ outcome' = outcome
          /\ pc' = "matchLoop"
          /\ idx' = idx + 1]_vars

\* C13's case: the caller chose "Skip match" for the first of two
\* transactions, which had two matching transfers.
C13_Witness ==
    /\ pc = "matchLoop"
    /\ Len(uncleared) = 2
    /\ Len(history) = 1
    /\ Len(history[1].matches) = 2
    /\ history[1].answer = "skip"
    /\ unmatchedCount = 1
    /\ idx = 2
    /\ calls = <<>>
    /\ Len(remaining) = 2

\* C14: a transaction with more than one matching transfer is put to the
\* caller, and the answer is one of its candidates, "Skip match" or a
\* cancellation; after a cancellation the run is over: the transaction is the
\* last one examined, nothing was settled for it, no transfer is offered for
\* import and no transaction is created.
C14_PromptAndCancel ==
    \A i \in DOMAIN history :
        Len(history[i].matches) > 1 =>
            /\ history[i].prompted
            /\ history[i].answer \in {"pick", "skip", "cancel", "fail"}
            /\ history[i].answer = "pick" =>
                  InPool(history[i].chosen, history[i].matches)
            /\ history[i].answer # "pick" => history[i].chosen = NoPtr
            /\ history[i].answer = "cancel" =>
                  /\ i = Len(history)
                  /\ pc \in {"deferred", "exit"}
                  /\ outcome = "error"
                  /\ ~history[i].settled
                  /\ \A k \in DOMAIN calls :
                        /\ calls[k].id # history[i].id
                        /\ calls[k].op # "CreateTransaction"
                  /\ offered = <<>>
                  /\ Len(remaining) = Len(history[i].pool)

\* C14's case: the caller canceled the prompt of the first transaction while
\* a second one, and transfers for the import, were waiting.
C14_Witness ==
    /\ pc = "exit"
    /\ Len(uncleared) = 2
    /\ Len(history) = 1
    /\ Len(history[1].matches) = 2
    /\ history[1].answer = "cancel"
    /\ \E k \in DOMAIN remaining :
          determineDirection(remaining[k], Wallet).ok

\* The step settled a match and the request to YNAB failed.
SettleFailed ==
    /\ LoopStep
    /\ Len(calls') = Len(calls) + 1
    /\ calls'[Len(calls')].result # "ok"

\* C15: a failure of the YNAB client while a match is settled does not end
\* the run: the step raises no error and leaves the loop at the next
\* transaction (after the last one the import starts), and every run that got
\* as far as the loop runs its deferred persist once on its way out.
C15_SettleFailureNotFatal ==
    /\ [][SettleFailed =>
             /\ outcome' = outcome
             /\ pc' = "matchLoop"
             /\ idx' = idx + 1
             /\ ledger' = ledger]_vars
    /\ []((pc = "exit" /\ history # <<>>) => persists = 1)

\* C15's case: the request for the first of two transactions failed, the
\* second was examined, a transfer was offered for import and the run ended
\* without an error.
C15_Witness ==
    /\ pc = "exit"
    /\ outcome = "ok"
    /\ persists = 1
    /\ Len(uncleared) = 2
    /\ Len(history) = 2
    /\ calls # <<>>
    /\ calls[1].op = "MarkTransactionClearedAndAppendMemo"
    /\ calls[1].id = history[1].id
    /\ calls[1].result # "ok"
    /\ history[2].id = uncleared[2].ID
    /\ offered # <<>>

(***************************************************************************)
(* Claims about the memo of a settled transaction.                         *)
(***************************************************************************)
HashCount(memo, txHash) ==
    Cardinality({i \in DOMAIN memo : memo[i] = txHash})

SentMemo == probe.state["t1"].memo

\* C16, as stated: after a successful request the memo
\* is the memo as it was if that held the hash, else it holds the hash once;
\* in both cases it holds the hash exactly once, and the transaction is
\* cleared.
C16_MemoUnchangedOrOnce ==
    (pc = "memo" /\ probe.stage = "out" /\ probe.result = "ok") =>
        /\ MemoContains(probe.before, probe.hash) => SentMemo = probe.before
        /\ HashCount(SentMemo, probe.hash) = 1
        /\ probe.state["t1"].cleared

\* C16, as the code has it: the memo is trimmed of surrounding white space
\* first; if the trimmed memo holds the hash it is sent as it is, else the
\* hash is appended to it once; the request never adds an occurrence of the
\* hash to a memo that has one, so a memo that held the hash at most once
\* holds it exactly once after any number of requests, and a second request
\* changes nothing; every successful request sets the status to cleared, and
\* a failed one changes nothing.
C16_MemoIdempotent ==
    (pc = "memo" /\ probe.stage = "out") =>
        LET b == TrimSpace(probe.before)
        IN  IF probe.result = "ok"
            THEN /\ MemoContains(b, probe.hash) => SentMemo = b
                 /\ ~MemoContains(b, probe.hash) =>
                       /\ Len(SentMemo) = Len(b) + 2
                       /\ b # <<>> => SubSeq(SentMemo, 1, Len(b)) = b
                       /\ SentMemo[Len(SentMemo)] = probe.hash
                       /\ HashCount(SentMemo, probe.hash) = 1
                 /\ HashCount(SentMemo, probe.hash)
                       = (IF HashCount(probe.before, probe.hash) = 0 THEN 1
                          ELSE HashCount(probe.before, probe.hash))
                 /\ HashCount(probe.first, probe.hash) <= 1 =>
                       HashCount(SentMemo, probe.hash) = 1
                 /\ probe.oks >= 2 => SentMemo = probe.before
                 /\ probe.state["t1"].cleared
            ELSE SentMemo = probe.before

\* C16's case: the second successful request for a memo that did not hold
\* the hash and had text of its own.
C16_Witness ==
    /\ pc = "memo"
    /\ probe.stage = "out"
    /\ probe.result = "ok"
    /\ probe.oks = 2
    /\ probe.first = <<<<"note">>>>
    /\ HashCount(SentMemo, probe.hash) = 1

(***************************************************************************)
(* Claims about the import of the remaining transfers.                     *)
(***************************************************************************)
\* The transfer touches the wallet and is of at least 0.01 token.
Eligible(xfr) ==
    /\ \/ ToLower(xfr.FromAddress) = ToLower(Wallet)
       \/ ToLower(xfr.ToAddress) = ToLower(Wallet)
    /\ xfr.Amount >= Pow10(TokenDecimals - 2)

\* The step is an iteration of the import loop, for ThisTransfer.
ImportStep == pc = "importLoop" /\ idx <= Len(remaining)

ThisTransfer == remaining[idx]

\* C17: the import offers a transfer to the caller exactly when the match
\* loop left it in the pool, its from- or to-address is the wallet address in
\* any letter case, and its amount is at least 10^(decimals-2); for any other
\* transfer the iteration prompts nothing, sends nothing to YNAB and leaves
\* the registry as it was.
C17_OfferedIffEligible ==
    /\ [][ImportStep =>
             IF Eligible(ThisTransfer)
             THEN offered' = Append(offered, ThisTransfer.ptr)
             ELSE /\ offered' = offered
                  /\ calls' = calls
                  /\ ledger' = ledger
                  /\ ignoreList' = ignoreList
                  /\ outcome' = outcome
                  /\ pc' = pc
                  /\ idx' = idx + 1]_vars
    /\ [](\A k \in DOMAIN offered :
             /\ InPool(offered[k], Ptrs(remaining))
             /\ InPool(offered[k], Ptrs(transfers))
             /\ \A i \in DOMAIN history : history[i].chosen # offered[k])
    /\ []((pc \in {"deferred", "exit"} /\ outcome = "ok") =>
             offered = Ptrs(SelectSeq(remaining, Eligible)))

\* C17's case: the import ended having offered the transfer of exactly the
\* minimum amount and not the one just below it.
C17_Witness ==
    /\ pc = "exit"
    /\ outcome = "ok"
    /\ offered = <<"x3">>
    /\ InPool("x5", Ptrs(remaining))

\* The wallet is the sender of the transfer.
SentByWallet(xfr) == ToLower(xfr.FromAddress) = ToLower(Wallet)

\* C18: a transaction created with success in the import carries the signed
\* amount computed from the transfer, negative when the wallet is the sender,
\* and a memo that contains the transfer's hash, and the hash is then in the
\* registry.
C18_CreateRecordsProcessed ==
    \A k \in DOMAIN calls :
        (calls[k].op = "CreateTransaction" /\ calls[k].result = "ok") =>
            \E x \in Range(transfers) :
                /\ x.TransactionHash = calls[k].hash
                /\ InPool(x.ptr, offered)
                /\ calls[k].amount * Pow10(TokenDecimals)
                      = (IF SentByWallet(x) THEN -1 ELSE 1) * x.Amount * 1000
                /\ MemoContains(calls[k].memo, calls[k].hash)
                /\ \E m \in DOMAIN ignoreList :
                      ignoreList[m].Hash = calls[k].hash

\* What the caller or the YNAB client did in the step of the import.
StepScript == IF probe'.stage = "import" THEN probe'.script ELSE "none"

\* C19: for an offered transfer "Skip" leaves the registry and YNAB as they
\* were, and "Ignore" adds the transfer's hash to the registry as ignored and
\* sends nothing to YNAB; after both the import is at the next transfer.
C19_SkipAndIgnore ==
    [][(ImportStep /\ Eligible(ThisTransfer)) =>
          /\ StepScript = "skip" =>
                /\ ignoreList' = ignoreList
                /\ calls' = calls
                /\ ledger' = ledger
                /\ outcome' = outcome
                /\ pc' = "importLoop"
                /\ idx' = idx + 1
          /\ StepScript = "ignore" =>
                /\ ignoreList' = Append(ignoreList,
                       [Hash |-> ThisTransfer.TransactionHash,
                        Reason |-> IgnoredReason(now)])
                /\ calls' = calls
                /\ ledger' = ledger
                /\ outcome' = outcome
                /\ pc' = "importLoop"
                /\ idx' = idx + 1]_vars

\* C19's case: the caller ignored the first of two transfers that are
\* offered.
C19_Witness ==
    /\ pc = "importLoop"
    /\ probe.stage = "import"
    /\ probe.script = "ignore"
    /\ idx = 2
    /\ Len(remaining) = 2
    /\ Eligible(remaining[2])
    /\ Len(ignoreList) = Len(loaded.hashes) + 1
    /\ ignoreList[Len(ignoreList)].Hash = remaining[1].TransactionHash
    /\ calls = <<>>

Cancellations == {"cancel", "payeeCanceled", "memoCanceled"}

Failures == {"promptFailed", "payeeFailed", "memoFailed", "createFailed"}

C21_DryRunChangesNothing ==
    dryRun => (calls = <<>> /\ ledger = InitialLedger)

\* The match loop is over and returned no error.
LoopEnded ==
    \/ pc = "matchLoop" /\ idx > Len(uncleared)
    \/ pc = "importLoop"

\* The requests to mark transaction id cleared with hash that succeeded.
ClearedCalls(id, hash) == {k \in MarkCalls(id, hash) : calls[k].result = "ok"}

\* C28: after the match loop every registry entry recorded as processed for
\* a YNAB transaction names a hash with which YNAB successfully marked that
\* transaction cleared, and a transfer whose settlement failed is still in
\* the pool.
C28_ProcessedMeansCleared ==
    LoopEnded =>
        /\ \A m \in DOMAIN ignoreList : \A id \in TxnIDs :
              ignoreList[m].Reason = ProcessedReason(id, now) =>
                  ClearedCalls(id, ignoreList[m].Hash) # {}
        /\ \A i \in DOMAIN history :
              (history[i].chosen # NoPtr
                 /\ \E k \in MarkCalls(history[i].id, HashOf(history[i].chosen)) :
                       calls[k].result # "ok") =>
                  InPool(history[i].chosen, Ptrs(remaining))

\* C29: one run of the match loop attaches a transaction hash to at most one
\* YNAB transaction, also when several rows of the export carry that hash.
C29_HashAttachedOnce ==
    \A i, j \in DOMAIN history :
        (i < j /\ history[i].chosen # NoPtr /\ history[j].chosen # NoPtr) =>
            HashOf(history[i].chosen) # HashOf(history[j].chosen)

\* The transfers the loop has consumed so far.
Consumed == {history[i].chosen : i \in DOMAIN history} \ {NoPtr}

\* C30: the copy the loop works on is the caller's list without the consumed
\* transfers, in the order of the list, and the list itself never changes;
\* when the loop ends with no error every uncleared transaction was counted
\* once, as matched or as unmatched.
C30_RemainingIsPoolMinusConsumed ==
    /\ [][transfers' = transfers]_vars
    /\ [](pc \in {"matchLoop", "importLoop"} =>
            /\ remaining = SelectSeq(transfers, LAMBDA x : x.ptr \notin Consumed)
            /\ matchedCount = Cardinality(Consumed)
            /\ matchedCount + unmatchedCount = Len(history))
    /\ [](LoopEnded =>
            /\ Len(history) = Len(uncleared)
            /\ matchedCount + unmatchedCount = Len(uncleared))

\* C30's case: of two uncleared transactions the first consumed the first of
\* two transfers and the second matched nothing; the import starts with the
\* second transfer alone.
C30_Witness ==
    /\ pc = "importLoop"
    /\ Len(transfers) = 2
    /\ Len(uncleared) = 2
    /\ Consumed = {transfers[1].ptr}
    /\ matchedCount = 1
    /\ unmatchedCount = 1
    /\ remaining = <<transfers[2]>>

(***************************************************************************)
(* Arbitrary-precision integers (math/big.Int) as a sign and the decimal   *)
(* digits of the magnitude, most significant first, with no leading zero.  *)
(***************************************************************************)
BigZero == <<0>>

RECURSIVE BigFromInt(_)
BigFromInt(n) ==
    IF n < 10 THEN <<n>> ELSE Append(BigFromInt(n \div 10), n % 10)

RECURSIVE BigValue(_)
BigValue(ds) ==
    IF Len(ds) = 1 THEN ds[1]
    ELSE BigValue(SubSeq(ds, 1, Len(ds) - 1)) * 10 + ds[Len(ds)]

Zeros(n) == [i \in 1 .. n |-> 0]
Nines(n) == [i \in 1 .. n |-> 9]

\* Mul(x, Exp(10, n))
BigMulPow10(ds, n) == IF ds = BigZero THEN BigZero ELSE ds \o Zeros(n)

\* Quo(x, Exp(10, n)) for x >= 0
BigQuoPow10(ds, n) ==
    IF Len(ds) <= n THEN BigZero ELSE SubSeq(ds, 1, Len(ds) - n)

\* Cmp(a, b) < 0 for a, b >= 0
BigLess(a, b) ==
    \/ Len(a) < Len(b)
    \/ /\ Len(a) = Len(b)
       /\ \E i \in DOMAIN a :
             /\ a[i] < b[i]
             /\ \A j \in 1 .. (i - 1) : a[j] = b[j]

\* 2^63 and 2^64
TwoTo63 == <<9, 2, 2, 3, 3, 7, 2, 0, 3, 6, 8, 5, 4, 7, 7, 5, 8, 0, 8>>
TwoTo64 == <<1, 8, 4, 4, 6, 7, 4, 4, 0, 7, 3, 7, 0, 9, 5, 5, 1, 6, 1, 6>>

\* A check that lets 64 bits of magnitude through, to compare BitLenOver63
\* with.
BitLenOver64(ds) == ~BigLess(ds, TwoTo64)

\* ynabMilli.BitLen() > 63: the magnitude is 2^63 or more.
BitLenOver63(ds) == ~BigLess(ds, TwoTo63)

\* convertToYNABAmount on amounts of any size: [err, neg, digits], where
\* neg and digits are the sign and the magnitude of the int64 returned.
convertToYNABAmountBig(amount, decimals, isOutbound) ==
    LET num == BigMulPow10(amount, 3)
        quo == BigQuoPow10(num, decimals)
    IN  IF BitLenOver63(quo)
        THEN [err |-> TRUE, neg |-> FALSE, digits |-> BigZero]
        ELSE [err |-> FALSE, neg |-> isOutbound /\ quo # BigZero,
              digits |-> quo]

(***************************************************************************)
(* SpecConv: convertToYNABAmount applied to small amounts and to amounts   *)
(* around the largest one YNAB's int64 holds, for several decimals.        *)
(***************************************************************************)
MaxConvSmall == 12

ConvDecimals == {0, 2, 3, 6, 18}

\* 2^63 - 1
MaxInt64 == <<9, 2, 2, 3, 3, 7, 2, 0, 3, 6, 8, 5, 4, 7, 7, 5, 8, 0, 7>>

\* n, n * 100 + 5 and n * 100000 for small n; around 2^63 * 10^(d-3) for
\* each d: the last amount that fits and the first that does not.
ConvAmounts ==
    {BigFromInt(n) : n \in 0 .. MaxConvSmall}
    \cup {BigFromInt(n * 100 + 5) : n \in 0 .. MaxConvSmall}
    \cup {BigFromInt(n * 100000) : n \in 0 .. MaxConvSmall}
    \cup {MaxInt64 \o Nines(k) : k \in {0, 3, 15}}
    \cup {TwoTo63 \o Zeros(k) : k \in {0, 3, 15}}
    \cup {SubSeq(MaxInt64, 1, 16), SubSeq(MaxInt64, 1, 18),
          <<9, 2, 2, 3, 3, 7, 2, 0, 3, 6, 8, 5, 4, 7, 7, 6>>,
          <<9, 2, 2, 3, 3, 7, 2, 0, 3, 6, 8, 5, 4, 7, 7, 5, 8, 1>>}

InitConv ==
    /\ pc = "convert"
    /\ now \in {"2025-12-20"}
    /\ file = AbsentFile
    /\ ignoreList = NewIgnoreList
    /\ \E a \in ConvAmounts, d \in ConvDecimals, o \in BOOLEAN :
          probe = [stage |-> "in", amount |-> a, decimals |-> d,
                   isOutbound |-> o,
                   result |-> [err |-> FALSE, neg |-> FALSE,
                               digits |-> BigZero]]
    /\ RunIdle

ApplyConvert ==
    /\ pc = "convert"
    /\ probe.stage = "in"
    /\ probe' = [probe EXCEPT
                    !.stage = "out",
                    !.result = convertToYNABAmountBig(probe.amount,
                                   probe.decimals, probe.isOutbound)]
    /\ UNCHANGED <<pc, now, file, ignoreList, runVars>>

NextConv == ApplyConvert

SpecConv == InitConv /\ [][NextConv]_vars

(***************************************************************************)
(* Claims about the conversion to YNAB's amount.                           *)
(***************************************************************************)
RECURSIVE BigInc(_)
BigInc(ds) ==
    IF ds = <<>> THEN <<1>>
    ELSE IF ds[Len(ds)] < 9 THEN [ds EXCEPT ![Len(ds)] = @ + 1]
    ELSE Append(BigInc(SubSeq(ds, 1, Len(ds) - 1)), 0)

BigLessEq(a, b) == a = b \/ BigLess(a, b)

\* q = floor(amount * 1000 / 10^decimals), stated without a division.
IsFloorOfMilli(q, amount, decimals) ==
    /\ BigLessEq(BigMulPow10(q, decimals), BigMulPow10(amount, 3))
    /\ BigLess(BigMulPow10(amount, 3), BigMulPow10(BigInc(q), decimals))

\* The amount, times 1000, fits 32-bit integers.
IsSmall(amount, decimals) == Len(amount) <= 6 /\ decimals <= 6

\* C22: for a base-unit amount >= 0 the conversion returns
\* floor(amount * 1000 / 10^decimals), negated for an outbound transfer,
\* when that magnitude is below 2^63, and otherwise an error and no value:
\* never a wrapped or truncated number.  On small amounts the conversion the
\* import uses gives the same value.
C22_FloorOrOverflow ==
    probe.stage = "out" =>
        LET a == probe.amount
            d == probe.decimals
            r == probe.result
        IN  /\ r.err <=> BigLessEq(BigMulPow10(TwoTo63, d), BigMulPow10(a, 3))
            /\ ~r.err =>
                  /\ IsFloorOfMilli(r.digits, a, d)
                  /\ BigLess(r.digits, TwoTo63)
                  /\ r.neg <=> (probe.isOutbound /\ r.digits # BigZero)
            /\ IsSmall(a, d) =>
                  LET small == convertToYNABAmount(BigValue(a), d,
                                                   probe.isOutbound)
                  IN  /\ ~small.err /\ ~r.err
                      /\ small.value = (IF r.neg THEN -1 ELSE 1)
                                           * BigValue(r.digits)
                      /\ Abs(small.value)
                            = (BigValue(a) * 1000) \div Pow10(d)

\* C22's case: an amount of 2^63 base units with 3 decimals is refused.
C22_Witness ==
    /\ probe.stage = "out"
    /\ probe.decimals = 3
    /\ probe.amount = TwoTo63
    /\ probe.result.err

(***************************************************************************)
(* SpecRound: base units converted to YNAB's amount by the import and back *)
(* to base units by the matcher, twice.                                    *)
(***************************************************************************)
MaxRoundUnits == 3
MaxRounds == 2

RoundDecimals == {3, 4, 6}

\* whole thousands of base units and values between them
RoundValues ==
    {a * 1000 + b : a \in 0 .. MaxRoundUnits, b \in {0, 1, 10, 500, 999}}

InitRound ==
    /\ pc = "round"
    /\ now \in {"2025-12-20"}
    /\ file = AbsentFile
    /\ ignoreList = NewIgnoreList
    /\ \E v \in RoundValues, d \in RoundDecimals, o \in BOOLEAN :
          probe = [stage |-> "base", v |-> v, decimals |-> d, isOutbound |-> o,
                   rounds |-> 0, base |-> <<v>>, milli |-> <<>>]
    /\ RunIdle

\* the import's conversion of the last base-unit value
ToLedgerAmount ==
    /\ pc = "round"
    /\ probe.stage = "base"
    /\ probe.rounds < MaxRounds
    /\ LET r == convertToYNABAmount(probe.base[Len(probe.base)],
                                    probe.decimals, probe.isOutbound)
       IN  /\ ~r.err
           /\ probe' = [probe EXCEPT !.stage = "milli",
                                     !.milli = Append(@, r.value)]
    /\ UNCHANGED <<pc, now, file, ignoreList, runVars>>

\* the matcher's conversion of the last YNAB amount
ToBaseUnits ==
    /\ pc = "round"
    /\ probe.stage = "milli"
    /\ probe' = [probe EXCEPT
                    !.stage = "base",
                    !.rounds = @ + 1,
                    !.base = Append(@, ExpectedBaseUnits(
                                 probe.milli[Len(probe.milli)],
                                 probe.decimals))]
    /\ UNCHANGED <<pc, now, file, ignoreList, runVars>>

NextRound == ToLedgerAmount \/ ToBaseUnits

SpecRound == InitRound /\ [][NextRound]_vars

\* C23: for decimals >= 3, with f(v) the conversion of v >= 0 to YNAB's
\* amount and back: f(v) = v when v is a multiple of 10^(decimals-3), and
\* for every v, f(v) <= v and f(f(v)) = f(v); the YNAB amount of f(v) is
\* that of v.
C23_RoundTrip ==
    (probe.stage = "base" /\ probe.rounds >= 1) =>
        LET v == probe.v
            f == probe.base[2]
        IN  /\ probe.decimals >= 3
            /\ v % Pow10(probe.decimals - 3) = 0 => f = v
            /\ f <= v
            /\ f >= 0
            /\ \A k \in 2 .. Len(probe.base) : probe.base[k] = f
            /\ \A k \in DOMAIN probe.milli : probe.milli[k] = probe.milli[1]

\* C23's case: 1999 base units of an outbound transfer with 4 decimals
\* came back as 1990, and 1990 came back as 1990.
C23_Witness ==
    /\ probe.stage = "base"
    /\ probe.rounds = 2
    /\ probe.decimals = 4
    /\ probe.isOutbound
    /\ probe.v = 1999
    /\ probe.base = <<1999, 1990, 1990>>
    /\ probe.milli = <<-199, -199>>

(***************************************************************************)
(* The amount of a row of the export: texts are sequences of characters,   *)
(* amounts are integers, NilAmount is the nil *big.Int.                    *)
(***************************************************************************)
DigitChars == <<"0", "1", "2", "3", "4", "5", "6", "7", "8", "9">>

IsDigit(c) == \E i \in DOMAIN DigitChars : DigitChars[i] = c

DigitValue(c) == (CHOOSE i \in DOMAIN DigitChars : DigitChars[i] = c) - 1

\* strings.ReplaceAll(s, old, "") for a single character old
ReplaceAll(s, old) == SelectSeq(s, LAMBDA c : c # old)

RECURSIVE DecimalValue(_)
DecimalValue(ds) ==
    IF ds = <<>> THEN 0
    ELSE DecimalValue(SubSeq(ds, 1, Len(ds) - 1)) * 10
            + DigitValue(ds[Len(ds)])

\* new(big.Int).SetString(s, base10): an optional sign, then one digit or
\* more; [ok, value]
SetString(s) ==
    LET signed == s # <<>> /\ s[1] \in {"+", "-"}
        ds == IF signed THEN Tail(s) ELSE s
    IN  IF ds = <<>> \/ \E i \in DOMAIN ds : ~IsDigit(ds[i])
        THEN [ok |-> FALSE, value |-> 0]
        ELSE [ok |-> TRUE,
              value |-> IF signed /\ s[1] = "-" THEN -DecimalValue(ds)
                        ELSE DecimalValue(ds)]

\* A conversion that accepts no separator, to compare BigIntFromString with.
BigIntFromStringPlain(s) == SetString(s)

\* ctsbig.BigIntFromString: commas, underscores and spaces are removed.
BigIntFromString(s) ==
    SetString(ReplaceAll(ReplaceAll(ReplaceAll(s, ","), "_"), " "))

\* strings.Contains(s, c) for a single character c
Contains(s, c) == \E i \in DOMAIN s : s[i] = c

\* strings.SplitN(s, ".", 2) of a text that contains a point
SplitN(s) ==
    LET i == CHOOSE k \in DOMAIN s :
                 s[k] = "." /\ \A j \in 1 .. (k - 1) : s[j] # "."
    IN  <<SubSeq(s, 1, i - 1), SubSeq(s, i + 1, Len(s))>>

\* strings.TrimRight(s, "0")
RECURSIVE TrimRight(_)
TrimRight(s) ==
    IF s # <<>> /\ s[Len(s)] = "0" THEN TrimRight(SubSeq(s, 1, Len(s) - 1))
    ELSE s

NoError == [kind |-> "none", quoted |-> <<>>]

\* splitAmountParts: [err, wholeTokens, fracTokens, fracTokensLength]; the
\* error carries the texts its message quotes.
splitAmountParts(amountStr, txHash) ==
    IF ~Contains(amountStr, ".")
    THEN LET w == BigIntFromString(amountStr)
         IN  IF ~w.ok
             THEN [err |-> [kind |-> "wholeTokens",
                            quoted |-> <<amountStr, txHash>>],
                   wholeTokens |-> 0, fracTokens |-> 0, fracTokensLength |-> 0]
             ELSE [err |-> NoError, wholeTokens |-> w.value, fracTokens |-> 0,
                   fracTokensLength |-> 0]
    ELSE LET parts == SplitN(amountStr)
             w == BigIntFromString(parts[1])
             fracTokensString == TrimRight(parts[2])
             f == IF Len(fracTokensString) > 0
                  THEN BigIntFromString(fracTokensString)
                  ELSE [ok |-> TRUE, value |-> 0]
         IN  IF ~w.ok
             THEN [err |-> [kind |-> "wholeTokens",
                            quoted |-> <<parts[1], txHash>>],
                   wholeTokens |-> 0, fracTokens |-> 0, fracTokensLength |-> 0]
             ELSE IF ~f.ok
             THEN [err |-> [kind |-> "fracTokens",
                            quoted |-> <<parts[2], txHash>>],
                   wholeTokens |-> 0, fracTokens |-> 0, fracTokensLength |-> 0]
             ELSE [err |-> NoError, wholeTokens |-> w.value,
                   fracTokens |-> f.value,
                   fracTokensLength |-> Len(fracTokensString)]

\* parseAmount: [err, amount]
parseAmount(amountStr, decimals, txHash) ==
    IF amountStr = <<>>
    THEN [err |-> [kind |-> "emptyAmount", quoted |-> <<txHash>>],
          amount |-> NilAmount]
    ELSE LET p == splitAmountParts(amountStr, txHash)
             whole == IF p.wholeTokens > 0
                      THEN p.wholeTokens * Pow10(decimals)
                      ELSE 0
             exponent == decimals - p.fracTokensLength
         IN  IF p.err # NoError
             THEN [err |-> p.err, amount |-> NilAmount]
             ELSE IF p.fracTokens > 0
             THEN IF exponent < 0
                  THEN [err |-> [kind |-> "tooManyDecimals",
                                 quoted |-> <<amountStr, txHash>>],
                        amount |-> NilAmount]
                  ELSE [err |-> NoError,
                        amount |-> whole + p.fracTokens * Pow10(exponent)]
             ELSE [err |-> NoError, amount |-> whole]

\* The decimal digits of n >= 0.
RECURSIVE IntText(_)
IntText(n) ==
    IF n < 10 THEN <<DigitChars[n + 1]>>
    ELSE Append(IntText(n \div 10), DigitChars[(n % 10) + 1])

\* big.Float.Text('f', decimals) of amount / 10^decimals
FloatText(amount, decimals) ==
    LET frac == IntText(amount % Pow10(decimals))
    IN  IF decimals = 0 THEN IntText(amount)
        ELSE IntText(amount \div Pow10(decimals)) \o <<".">>
                \o [i \in 1 .. (decimals - Len(frac)) |-> "0"] \o frac

\* the loop of FormatAmount that trims trailing zeros
RECURSIVE TrimZerosKeepOne(_)
TrimZerosKeepOne(s) ==
    IF Len(s) > 1 /\ s[Len(s)] = "0"
    THEN TrimZerosKeepOne(SubSeq(s, 1, Len(s) - 1))
    ELSE s

\* Transfer.FormatAmount
FormatAmount(amount, decimals) ==
    IF amount = NilAmount THEN <<"0">>
    ELSE LET s == TrimZerosKeepOne(FloatText(amount, decimals))
         IN  IF Len(s) > 1 /\ s[Len(s)] = "."
             THEN SubSeq(s, 1, Len(s) - 1)
             ELSE s

(***************************************************************************)
(* SpecText: parseAmount applied to an amount text, and FormatAmount       *)
(* applied to the amount parsed and to an absent amount.                   *)
(***************************************************************************)
MaxTextLen == 4

TextChars == {"0", "1", "5", ".", ","}
TextDecimals == {0, 2, 3}

\* texts with a sign, other separators, other characters
OtherTexts ==
    {<<"-", "1", ".", "5">>,
     <<"-", "1", "5">>,
     <<"+", "5">>,
     <<"1", "_", "0">>,
     <<"1", " ", "0">>,
     <<"1", ".", "x">>,
     <<"x", "1">>,
     <<"1", ".", "-", "5">>,
     <<"1", ".", "+", "5">>,
     <<"1", ".", "5", "_">>}

\* amounts of the export of the tests, with the 6 decimals of the token
UsdcTexts ==
    {<<"1", "0", "1", ".", "5">>,
     <<"1", "0", "1", ".", "5", "0", "0", "0", "0", "0">>,
     <<"1", ",", "0", "0", "0", ".", "5", "0">>,
     <<"0", ".", "0", "0", "0", "0", "0", "1">>,
     <<"1", ".", "2", "3", "4", "5", "6", "7">>,
     <<"0", ".", "1", "2", "3", "4", "5", "6", "7">>,
     <<"1", ".", "2", "3", "4", "5", "6", "7", "0">>}

TextInputs ==
    {<<t, d>> : t \in SeqsUpTo(TextChars, MaxTextLen) \cup OtherTexts,
                d \in TextDecimals}
    \cup {<<t, TokenDecimals>> : t \in UsdcTexts}

InitText ==
    /\ pc = "amountText"
    /\ now \in {"2025-12-20"}
    /\ file = AbsentFile
    /\ ignoreList = NewIgnoreList
    /\ \E in \in TextInputs :
          probe = [stage |-> "in", text |-> in[1], decimals |-> in[2],
                   txHash |-> <<"h", "1">>,
                   result |-> [err |-> NoError, amount |-> NilAmount],
                   display |-> <<>>]
    /\ RunIdle

ParseText ==
    /\ pc = "amountText"
    /\ probe.stage = "in"
    /\ probe' = [probe EXCEPT
                    !.stage = "parsed",
                    !.result = parseAmount(probe.text, probe.decimals,
                                           probe.txHash)]
    /\ UNCHANGED <<pc, now, file, ignoreList, runVars>>

\* the amount parsed is shown
FormatParsed ==
    /\ pc = "amountText"
    /\ probe.stage = "parsed"
    /\ probe.result.err = NoError
    /\ probe' = [probe EXCEPT
                    !.stage = "shown",
                    !.display = FormatAmount(probe.result.amount,
                                             probe.decimals)]
    /\ UNCHANGED <<pc, now, file, ignoreList, runVars>>

\* a transfer with no amount is shown
FormatAbsent ==
    /\ pc = "amountText"
    /\ probe.stage = "in"
    /\ probe' = [probe EXCEPT
                    !.stage = "absent",
                    !.display = FormatAmount(NilAmount, probe.decimals)]
    /\ UNCHANGED <<pc, now, file, ignoreList, runVars>>

NextText == ParseText \/ FormatParsed \/ FormatAbsent

SpecText == InitText /\ [][NextText]_vars

(***************************************************************************)
(* Claims about the amount text.                                           *)
(***************************************************************************)
\* The position of the first point of the text, or one past its end.
FirstPoint(t) ==
    IF \E k \in DOMAIN t : t[k] = "."
    THEN CHOOSE k \in DOMAIN t : t[k] = "." /\ \A j \in 1 .. (k - 1) : t[j] # "."
    ELSE Len(t) + 1

IntegerPart(t) == SubSeq(t, 1, FirstPoint(t) - 1)

FractionalPart(t) == SubSeq(t, FirstPoint(t) + 1, Len(t))

\* The text without the zeros at its end.
WithoutEndZeros(t) ==
    LET last == {k \in DOMAIN t : t[k] # "0"}
    IN  IF last = {} THEN <<>>
        ELSE SubSeq(t, 1, CHOOSE k \in last : \A j \in last : j <= k)

Ungrouped(t) == SelectSeq(t, LAMBDA c : c \notin {",", "_", " "})

AllDigits(t) == \A k \in DOMAIN t : IsDigit(t[k])

\* The number a text of digits denotes.
RECURSIVE NumberOf(_)
NumberOf(t) ==
    IF t = <<>> THEN 0
    ELSE DigitValue(Head(t)) * Pow10(Len(t) - 1) + NumberOf(Tail(t))

IsDecimalString(t) ==
    /\ IntegerPart(t) # <<>>
    /\ AllDigits(IntegerPart(t))
    /\ AllDigits(FractionalPart(t))
    /\ Len(IntegerPart(t)) > 1 => t[1] # "0"

\* The text without the zeros at the end of its fractional part and without
\* a point at its end.
Shortened(t) ==
    IF FirstPoint(t) > Len(t) THEN t
    ELSE IntegerPart(t)
            \o (IF WithoutEndZeros(FractionalPart(t)) = <<>> THEN <<>>
                ELSE <<".">> \o WithoutEndZeros(FractionalPart(t)))

\* C26: a decimal string whose fractional part is no longer than decimals is
\* shown, after parseAmount and FormatAmount, as itself without trailing
\* fractional zeros and without a trailing point; an absent amount is shown
\* as "0".
C26_DisplayRoundTrip ==
    /\ (probe.stage = "shown" /\ IsDecimalString(probe.text)
           /\ Len(FractionalPart(probe.text)) <= probe.decimals) =>
          probe.display = Shortened(probe.text)
    /\ probe.stage = "absent" => probe.display = <<"0">>

(***************************************************************************)
(* The export: a header and records of cells, as encoding/csv returns      *)
(* them.                                                                   *)
(***************************************************************************)
\* strings.TrimSpace of a text
RECURSIVE TrimSpaceText(_)
TrimSpaceText(t) ==
    IF t = <<>> THEN t
    ELSE IF Head(t) = " " THEN TrimSpaceText(Tail(t))
    ELSE IF t[Len(t)] = " " THEN TrimSpaceText(SubSeq(t, 1, Len(t) - 1))
    ELSE t

\* A key that is the cell as written, to compare headerKey with.
headerKeyExact(h) == h

\* the key of a header cell in hdrIdx
headerKey(h) == TrimSpaceText(ToLower(h))

\* the names parseHeader looks up, in its order
RequiredNames ==
    <<<<"t", "r", "a", "n", "s", "a", "c", "t", "i", "o", "n", " ", "h", "a", "s", "h">>,
      <<"f", "r", "o", "m">>,
      <<"t", "o">>,
      <<"a", "m", "o", "u", "n", "t">>,
      <<"d", "a", "t", "e", "t", "i", "m", "e", " ", "(", "u", "t", "c", ")">>>>

\* requiredColumn: [err, idx]; a key written twice keeps its last index.
requiredColumn(header, name) ==
    LET found == {i \in DOMAIN header : headerKey(header[i]) = name}
    IN  IF found = {}
        THEN [err |-> [kind |-> "missingColumn", quoted |-> <<name>> \o header],
              idx |-> 0]
        ELSE [err |-> NoError,
              idx |-> CHOOSE i \in found : \A j \in found : j <= i]

\* parseHeader: [err, idx], idx the indices of the five columns; the error
\* is that of the first name not found.
parseHeader(header) ==
    LET cols == [n \in DOMAIN RequiredNames |->
                    requiredColumn(header, RequiredNames[n])]
        missing == {n \in DOMAIN cols : cols[n].err # NoError}
    IN  IF missing = {}
        THEN [err |-> NoError, idx |-> [n \in DOMAIN cols |-> cols[n].idx]]
        ELSE [err |-> cols[CHOOSE n \in missing : \A m \in missing : n <= m].err,
              idx |-> [n \in DOMAIN cols |-> 0]]

\* the time of the export of the tests, and the hour the model gives it
WireTime == <<"2", "0", "2", "5", "-", "1", "2", "-", "1", "0", " ", "1", "1", ":", "5", "3", ":", "2", "3">>

\* parseExecutionTime: [err, time]
parseExecutionTime(timeStr, txHash) ==
    IF timeStr = WireTime
    THEN [err |-> NoError, time |-> BaseTime]
    ELSE [err |-> [kind |-> "executionTime", quoted |-> <<timeStr, txHash>>],
          time |-> 0]

NoTransfer ==
    [FromAddress |-> <<>>, ToAddress |-> <<>>, Amount |-> NilAmount,
     ExecutionTime |-> 0, TransactionHash |-> <<>>]

\* parseRecord: [err, transfer]
parseRecord(record, colIdx, decimals) ==
    IF \E n \in DOMAIN colIdx : colIdx[n] > Len(record)
    THEN [err |-> [kind |-> "malformedRecord", quoted |-> record],
          transfer |-> NoTransfer]
    ELSE LET txHash == TrimSpaceText(record[colIdx[1]])
             from == TrimSpaceText(record[colIdx[2]])
             to == TrimSpaceText(record[colIdx[3]])
             amountStr == TrimSpaceText(record[colIdx[4]])
             timeStr == TrimSpaceText(record[colIdx[5]])
             totalAmount == parseAmount(amountStr, decimals, txHash)
             executionTime == parseExecutionTime(timeStr, txHash)
         IN  IF totalAmount.err # NoError
             THEN [err |-> totalAmount.err, transfer |-> NoTransfer]
             ELSE IF executionTime.err # NoError
             THEN [err |-> executionTime.err, transfer |-> NoTransfer]
             ELSE [err |-> NoError,
                   transfer |-> [FromAddress |-> from, ToAddress |-> to,
                                 Amount |-> totalAmount.amount,
                                 ExecutionTime |-> executionTime.time,
                                 TransactionHash |-> txHash]]

\* A loop that returns with the error the transfers parsed before it, to
\* compare ReadRecords with.
RECURSIVE ReadRecordsKeepParsed(_, _, _, _, _)
ReadRecordsKeepParsed(records, colIdx, decimals, parsed, rowsRead) ==
    IF records = <<>>
    THEN [err |-> NoError, transfers |-> parsed, rowsRead |-> rowsRead]
    ELSE LET t == parseRecord(Head(records), colIdx, decimals)
         IN  IF Head(records) = <<>>
             THEN ReadRecordsKeepParsed(Tail(records), colIdx, decimals, parsed,
                                        rowsRead + 1)
             ELSE IF t.err # NoError
             THEN [err |-> t.err, transfers |-> parsed,
                   rowsRead |-> rowsRead + 1]
             ELSE ReadRecordsKeepParsed(Tail(records), colIdx, decimals,
                                        Append(parsed, t.transfer),
                                        rowsRead + 1)

\* the loop of TransfersFromEtherscanCSV over the records: [err, transfers,
\* rowsRead], where rowsRead counts the records read.
RECURSIVE ReadRecords(_, _, _, _, _)
ReadRecords(records, colIdx, decimals, parsed, rowsRead) ==
    IF records = <<>>
    THEN [err |-> NoError, transfers |-> parsed, rowsRead |-> rowsRead]
    ELSE LET t == parseRecord(Head(records), colIdx, decimals)
         IN  IF Head(records) = <<>>
             THEN ReadRecords(Tail(records), colIdx, decimals, parsed,
                              rowsRead + 1)
             ELSE IF t.err # NoError
             THEN [err |-> t.err, transfers |-> <<>>,
                   rowsRead |-> rowsRead + 1]
             ELSE ReadRecords(Tail(records), colIdx, decimals,
                              Append(parsed, t.transfer), rowsRead + 1)

\* TransfersFromEtherscanCSV once the reader has returned the header.
TransfersFromEtherscanCSV(header, records, decimals) ==
    LET h == parseHeader(header)
    IN  IF h.err # NoError
        THEN [err |-> h.err, transfers |-> <<>>, rowsRead |-> 0]
        ELSE ReadRecords(records, h.idx, decimals, <<>>, 0)

(***************************************************************************)
(* SpecCsv: TransfersFromEtherscanCSV applied to exports whose header has  *)
(* the columns in any order, written as in the tests or in another case    *)
(* and with spaces, with or without one column missing and one more        *)
(* column, and whose rows have good and bad amounts.                       *)
(***************************************************************************)
MaxCsvRows == 2

ColumnNames ==
    <<<<"T", "r", "a", "n", "s", "a", "c", "t", "i", "o", "n", " ", "H", "a", "s", "h">>,
      <<"F", "r", "o", "m">>,
      <<"T", "o">>,
      <<"A", "m", "o", "u", "n", "t">>,
      <<"D", "a", "t", "e", "T", "i", "m", "e", " ", "(", "U", "T", "C", ")">>>>

ColumnNamesRecased ==
    <<<<" ", "t", "r", "a", "n", "s", "a", "c", "t", "i", "o", "n", " ", "H", "A", "S", "H">>,
      <<"F", "R", "O", "M", " ">>,
      <<"t", "o">>,
      <<" ", "A", "M", "O", "U", "N", "T", " ">>,
      <<"d", "a", "t", "e", "t", "i", "m", "e", " ", "(", "u", "t", "c", ")">>>>

OtherColumn == <<"M", "e", "t", "h", "o", "d">>

CsvAmounts ==
    {<<"1", ".", "5">>,
     <<"2", " ">>,
     <<"0", ".", "1", "2", "3", "4", "5", "6", "7">>,
     <<>>}

\* the orders of the five columns
ColumnOrders ==
    {p \in [1 .. 5 -> 1 .. 5] : \A i, j \in 1 .. 5 : p[i] = p[j] => i = j}

\* the columns of an export, by number: 0 is the other column, which comes
\* first
ColumnsOf(order, missing, other) ==
    LET kept == SelectSeq(order, LAMBDA c : c # missing)
    IN  IF other THEN <<0>> \o kept ELSE kept

HeaderOf(cols, recased) ==
    [i \in DOMAIN cols |->
        IF cols[i] = 0 THEN OtherColumn
        ELSE IF recased THEN ColumnNamesRecased[cols[i]]
        ELSE ColumnNames[cols[i]]]

\* the values of row k with the amount a, by column
RowValues(k, a) ==
    <<<<"0", "x", "h", DigitChars[k + 1]>>, <<"0", "x", "a", "b">>,
      <<"0", "x", "c", "d">>, a, WireTime>>

RecordOf(cols, values) ==
    [i \in DOMAIN cols |->
        IF cols[i] = 0 THEN <<"T", "r", "a", "n", "s", "f", "e", "r">>
        ELSE values[cols[i]]]

InitCsv ==
    /\ pc = "export"
    /\ now \in {"2025-12-20"}
    /\ file = AbsentFile
    /\ ignoreList = NewIgnoreList
    /\ \E order \in ColumnOrders, missing \in 0 .. 5,
          other \in BOOLEAN, recased \in BOOLEAN,
          amounts \in SeqsUpTo(CsvAmounts, MaxCsvRows) :
          LET cols == ColumnsOf(order, missing, other)
          IN  probe = [stage |-> "in",
                       header |-> HeaderOf(cols, recased),
                       records |-> [k \in DOMAIN amounts |->
                                       RecordOf(cols, RowValues(k, amounts[k]))],
                       amounts |-> amounts,
                       decimals |-> TokenDecimals,
                       result |-> [err |-> NoError, transfers |-> <<>>,
                                   rowsRead |-> 0]]
    /\ RunIdle

ParseExport ==
    /\ pc = "export"
    /\ probe.stage = "in"
    /\ probe' = [probe EXCEPT
                    !.stage = "parsed",
                    !.result = TransfersFromEtherscanCSV(probe.header,
                                   probe.records, probe.decimals)]
    /\ UNCHANGED <<pc, now, file, ignoreList, runVars>>

NextCsv == ParseExport

SpecCsv == InitCsv /\ [][NextCsv]_vars

(***************************************************************************)
(* Claims about the export.                                                *)
(***************************************************************************)
\* The header cell names required column c, whatever its case and the
\* spaces around it.
SameColumn(h, c) == ToUpper(TrimSpaceText(h)) = ToUpper(ColumnNames[c])

\* The required columns the header lacks.
MissingColumns ==
    {c \in DOMAIN ColumnNames :
        \A i \in DOMAIN probe.header : ~SameColumn(probe.header[i], c)}

\* The amount is empty, or its fractional part without trailing zeros is
\* longer than the decimals.
BadAmount(a, decimals) ==
    \/ TrimSpaceText(a) = <<>>
    \/ Len(WithoutEndZeros(FractionalPart(TrimSpaceText(a)))) > decimals

BadRows == {k \in DOMAIN probe.amounts : BadAmount(probe.amounts[k], probe.decimals)}

Quotes(err, text) == \E q \in DOMAIN err.quoted : err.quoted[q] = text

\* C25: when the header is complete and a row has an empty amount or an
\* amount with more decimals than the token, the parse returns an error for
\* the first such row, which quotes the hash of the row and the amount when
\* there is one, and returns no transfer, also when rows before it were
\* parsed; with no such row every row becomes a transfer.
C25_AmountErrorFailsParse ==
    (probe.stage = "parsed" /\ MissingColumns = {}) =>
        IF BadRows = {}
        THEN /\ probe.result.err = NoError
             /\ Len(probe.result.transfers) = Len(probe.records)
        ELSE LET k == CHOOSE b \in BadRows : \A c \in BadRows : b <= c
                 a == TrimSpaceText(probe.amounts[k])
             IN  /\ probe.result.err.kind
                       = (IF a = <<>> THEN "emptyAmount" ELSE "tooManyDecimals")
                 /\ Quotes(probe.result.err, RowValues(k, a)[1])
                 /\ a # <<>> => Quotes(probe.result.err, a)
                 /\ probe.result.transfers = <<>>
                 /\ probe.result.rowsRead = k

\* C25's case: the first row was parsed and the amount of the second has 7
\* decimals; the parse returned the error and no transfer.
C25_Witness ==
    /\ probe.stage = "parsed"
    /\ MissingColumns = {}
    /\ Len(probe.records) = 2
    /\ BadRows = {2}
    /\ probe.result.err.kind = "tooManyDecimals"
    /\ probe.result.rowsRead = 2
    /\ probe.result.transfers = <<>>

\* The transfer row k of the export describes.
TransferOfRow(k) ==
    [TransactionHash |-> RowValues(k, <<>>)[1],
     FromAddress |-> RowValues(k, <<>>)[2],
     ToAddress |-> RowValues(k, <<>>)[3],
     Amount |-> IF probe.amounts[k] = <<"1", ".", "5">> THEN 1500000
                ELSE 2000000,
     ExecutionTime |-> BaseTime]

====
